---- MODULE Spec2Model ----
(***************************************************************************)
(* Interview processing worker: the SQS run loop (sqs_handler.py), the     *)
(* interview workflow (interview_workflow.py), the record store handler    *)
(* (dynamodb_handler.py) and the retry / error utilities                   *)
(* (error_handling.py).                                                    *)
(*                                                                         *)
(* Four specifications share the variables:                                *)
(*   Spec        - the program: one worker process, either consuming the   *)
(*                 queue with process_interview_message as the callback    *)
(*                 or processing a single interview by id;                 *)
(*   SpecLoop    - run_message_processor driven with an arbitrary callback *)
(*                 (returns True, returns False or raises);                *)
(*   SpecRetry   - the retry_with_backoff wrapper around an arbitrary      *)
(*                 operation, with its parameters drawn from bounded sets; *)
(*   SpecWorkers - several worker processes on the same queue, with time.  *)
(***************************************************************************)
EXTENDS Integers, Sequences, FiniteSets, TLC

VARIABLES
    wrapper,      \* state of one call of the retry_with_backoff wrapper
    mode,         \* which entry point runs: "continuous", "single", "loop", "retry",
                  \* "workers"
    pc,           \* position of the worker process
    queue,        \* the SQS queue: message id -> [status, body]
    table,        \* the interviews table: key -> record or NoItem
    questions,    \* the questions table: sequence of persisted items
    message,      \* the message handled by the run loop: {m}, or {} for none
    interview_id, \* argument of process_interview_message
    sqs_message,  \* argument of process_interview_message: {m}, or {} for None
    interview,    \* the record loaded in step 2 (or NoItem)
    extracted,    \* what the current sub-operation attempt returns (None or a list)
    success,      \* what the callback returned ("none" before it returns)
    loop_calls,   \* queue calls issued by the run loop for the current message
    calls,        \* external calls issued by the current run of the workflow
    steps,        \* which steps of the current run completed successfully
    previous_run, \* what the run before the current one did (NoRun when none)
    now,          \* the time, in units of 300 s (several workers)
    workers,      \* position of each of several worker processes
    deadline      \* per message: when its visibility window ends

vars == <<wrapper, mode, pc, queue, table, questions, message, interview_id,
          sqs_message, interview, extracted, success, loop_calls, calls, steps,
          previous_run, now, workers, deadline>>

\* The variables of the timed model of several workers.
fleetVars == <<now, workers, deadline>>

workerVars == <<mode, pc, queue, table, questions, message, interview_id,
                sqs_message, interview, extracted, success, loop_calls, calls,
                steps, previous_run, fleetVars>>

(***************************************************************************)
(* Bounds of the model.                                                    *)
(***************************************************************************)
MaxRetriesBound == 3    \* max_retries ranges over 0..MaxRetriesBound
MaxBaseDelay == 2       \* base_delay ranges over 1..MaxBaseDelay
MaxDelayBound == 5      \* max_delay ranges over 1..MaxDelayBound

Min(a, b) == IF a < b THEN a ELSE b

(***************************************************************************)
(* error_handling.py: retry_with_backoff                                   *)
(***************************************************************************)
\* What one invocation of the wrapped operation can do: return a value, or
\* raise botocore's ClientError (with an error code), botocore's
\* BotoCoreError (which has no response attribute), the repository's
\* ValidationError, or any other Exception.
ReturnValues == {"r1", "r2"}
NonRetryableCodes == {"AccessDenied", "InvalidParameterValue", "ValidationException"}
RetryableCodes == {"ThrottlingException"}
Outcomes ==
    [kind : {"return"}, code : {""}, value : ReturnValues]
    \cup [kind : {"ClientError"}, code : NonRetryableCodes \cup RetryableCodes, value : {""}]
    \cup [kind : {"BotoCoreError", "ValidationError", "Exception"}, code : {""}, value : {""}]

\* except (ClientError, BotoCoreError)
IsBotoError(o) == o.kind \in {"ClientError", "BotoCoreError"}

\* getattr(e, 'response', {}).get('Error', {}).get('Code', 'Unknown')
error_code(o) == IF o.kind = "ClientError" THEN o.code ELSE "Unknown"

\* A shorter list of codes that are not retried.
IsNonRetryableShort(o) == o.kind = "ClientError" /\ o.code \in {"AccessDenied"}

\* if error_code in ['AccessDenied', 'InvalidParameterValue', 'ValidationException']
IsNonRetryable(o) == IsBotoError(o) /\ error_code(o) \in NonRetryableCodes

\* One retry fewer.
ShouldRetryOffByOne(a, m) == a + 1 < m

\* if attempt < max_retries
ShouldRetry(a, m) == a < m

\* The delay without its cap.
DelayUncapped(base, a, maxd) == base * (2 ^ a)

\* delay = min(base_delay * (2 ** attempt), max_delay)
Delay(base, a, maxd) == Min(base * (2 ^ a), maxd)

NoRetryCount == 0 - 1   \* "no retry count in the message"

NewWrapper(m, base, maxd) ==
    [status |-> "running", max_retries |-> m, base_delay |-> base,
     max_delay |-> maxd, attempt |-> 0, invocations |-> 0,
     sleeps |-> <<>>, outcomes |-> <<>>,
     result |-> [kind |-> "none", value |-> "", retries |-> NoRetryCount]]

Returned(v) == [kind |-> "return", value |-> v, retries |-> NoRetryCount]

\* An exception raised without the retry count in its message.
RaisedWithoutCount(cls, n) == [kind |-> "raise", value |-> cls, retries |-> NoRetryCount]

\* raise cls(...): n is the retry count the message carries, if any.
Raised(cls, n) == [kind |-> "raise", value |-> cls, retries |-> n]

\* One pass through the body of the for loop up to (not including) the sleep:
\* the operation is invoked and its outcome o is classified.
AfterAttempt(w, o) ==
    LET w1 == [w EXCEPT !.invocations = @ + 1, !.outcomes = Append(@, o)]
    IN  IF o.kind = "return"
          THEN [w1 EXCEPT !.status = "returned", !.result = Returned(o.value)]
        ELSE IF IsBotoError(o)
          THEN IF IsNonRetryable(o)
                 THEN [w1 EXCEPT !.status = "raised",
                                 !.result = Raised("AWSServiceError", NoRetryCount)]
               ELSE IF ShouldRetry(w.attempt, w.max_retries)
                 THEN [w1 EXCEPT !.status = "backoff"]
               ELSE [w1 EXCEPT !.status = "raised",
                               !.result = Raised("AWSServiceError", w.max_retries)]
        ELSE IF ShouldRetry(w.attempt, w.max_retries)
          THEN [w1 EXCEPT !.status = "backoff"]
        ELSE [w1 EXCEPT !.status = "raised",
                        !.result = Raised(o.kind, NoRetryCount)]

\* time.sleep(delay), then the next iteration of the for loop.
AfterBackoff(w) ==
    [w EXCEPT !.status = "running",
              !.sleeps = Append(@, Delay(w.base_delay, w.attempt, w.max_delay)),
              !.attempt = @ + 1]

RetryAttempt ==
    /\ mode = "retry"
    /\ wrapper.status = "running"
    /\ \E o \in Outcomes : wrapper' = AfterAttempt(wrapper, o)
    /\ UNCHANGED workerVars

RetryBackoff ==
    /\ mode = "retry"
    /\ wrapper.status = "backoff"
    /\ wrapper' = AfterBackoff(wrapper)
    /\ UNCHANGED workerVars

(***************************************************************************)
(* Data: interview ids, interview records, queue messages.                 *)
(***************************************************************************)
MaxMessages == 1        \* messages sent to the queue
MaxQuestions == 2       \* questions one extraction returns

\* Values that arrive as interview_id: well-formed UUIDs and strings that
\* uuid.UUID() rejects.
InterviewUUIDs == {"11111111-1111-1111-1111-111111111111"}
UserUUID == "22222222-2222-2222-2222-222222222222"
WellFormedUUIDs == InterviewUUIDs \cup {UserUUID}
MalformedIds == {"not-a-uuid"}
InterviewIds == InterviewUUIDs \cup MalformedIds

\* A path is the sequence of its "/"-separated segments, so that
\* startswith() is decided on the path itself:
\*   videos/x/y/sample.mp4 -> <<"videos", "x", "y", "sample.mp4">>
\*   s3://bucket/v.mp4     -> <<"s3:", "", "bucket", "v.mp4">>
KeyPath == <<"videos", "x", "y", "sample.mp4">>
UriPath == <<"s3:", "", "bucket", "v.mp4">>
LocalPath == <<"tmp", "sample.mp4">>
S3_BUCKET == "bucket"

\* An item of the interviews table; an attribute that is absent is "" (or
\* <<>> for the path), which is what dict.get() makes falsy.
NoItem ==
    [id |-> "", video_path |-> <<>>, user_id |-> "", type |-> "",
     programming_language |-> "", state |-> "", updated_at |-> ""]

PendingInterview(k, path, user) ==
    [id |-> k, video_path |-> path, user_id |-> user, type |-> "technical",
     programming_language |-> "python", state |-> "pending", updated_at |-> ""]

\* What the upload service may have stored under key k before the worker runs.
InitialItems(k) ==
    { NoItem,
      PendingInterview(k, KeyPath, UserUUID),
      PendingInterview(k, UriPath, UserUUID),
      PendingInterview(k, LocalPath, UserUUID),
      PendingInterview(k, KeyPath, ""),
      PendingInterview(k, KeyPath, "not-a-uuid") }

MsgIds == 1..MaxMessages

\* Bodies of queue messages, by what json.loads() makes of them.
BodyShapes ==
    {"object_with_id",      \* {"interview_id": ...}
     "object_without_id",   \* a JSON object that lacks the key
     "not_json",            \* json.loads raises JSONDecodeError
     "scalar",              \* a number, true, false or null
     "container_with",      \* a JSON string or array that contains "interview_id"
     "container_without"}   \* any other JSON string or array
Bodies ==
    [shape : {"object_with_id"}, interview_id : InterviewIds]
    \cup [shape : BodyShapes \ {"object_with_id"}, interview_id : {""}]

NoBody == [shape |-> "not_json", interview_id |-> ""]

\* None and a list are different results of the sub-operation.
None == [is_none |-> TRUE, list |-> <<>>]
Some(l) == [is_none |-> FALSE, list |-> l]

Call(op, arg, ok) == [op |-> op, arg |-> arg, ok |-> ok]

(***************************************************************************)
(* Initial states.                                                         *)
(***************************************************************************)
\* interview_workflow.py:172 and error_handling.py:29
WorkflowMaxRetries == 2
DefaultBaseDelay == 1
DefaultMaxDelay == 60

IdleWrapper == NewWrapper(WorkflowMaxRetries, DefaultBaseDelay, DefaultMaxDelay)

InitStore ==
    /\ table \in [InterviewIds -> UNION {InitialItems(k) : k \in InterviewIds}]
    /\ \A k \in InterviewUUIDs : table[k] \in InitialItems(k)
    /\ \A k \in MalformedIds : table[k] = NoItem
    /\ questions = <<>>

EmptyStore ==
    /\ table = [k \in InterviewIds |-> NoItem]
    /\ questions = <<>>

InitQueue == queue = [m \in MsgIds |-> [status |-> "unsent", body |-> NoBody]]

\* No run has returned yet.
NoRun ==
    [ran |-> FALSE, id |-> "", all_ok |-> FALSE, returned_true |-> FALSE,
     persisted |-> 0]

\* A run has returned in which something failed.
FailedRun == [NoRun EXCEPT !.ran = TRUE]

InitRun ==
    /\ interview = NoItem
    /\ extracted = None
    /\ success = "none"
    /\ loop_calls = <<>>
    /\ calls = <<>>
    /\ steps = {}
    /\ previous_run = NoRun

\* The timed model of several workers is idle.
IdleFleet ==
    /\ now = 0
    /\ workers = <<>>
    /\ deadline = [m \in MsgIds |-> 0]

\* main.py: mode 'continuous' runs the loop, mode 'single' one interview.
Init ==
    /\ mode \in {"continuous", "single"}
    /\ wrapper = IdleWrapper
    /\ InitStore /\ InitQueue /\ InitRun /\ IdleFleet
    /\ message = {}
    /\ sqs_message = {}
    /\ IF mode = "continuous"
         THEN pc = "poll" /\ interview_id = ""
         ELSE pc = "wf_validate_id" /\ interview_id \in InterviewIds

InitLoop ==
    /\ mode = "loop"
    /\ wrapper = IdleWrapper
    /\ EmptyStore /\ InitQueue /\ InitRun /\ IdleFleet
    /\ message = {}
    /\ sqs_message = {}
    /\ pc = "poll"
    /\ interview_id = ""

InitRetry ==
    /\ mode = "retry"
    /\ \E m \in 0..MaxRetriesBound, b \in 1..MaxBaseDelay, d \in 1..MaxDelayBound :
          wrapper = NewWrapper(m, b, d)
    /\ EmptyStore /\ InitQueue /\ InitRun /\ IdleFleet
    /\ message = {}
    /\ sqs_message = {}
    /\ pc = "retry"
    /\ interview_id = ""

(***************************************************************************)
(* The queue (SQS) as the worker sees it.                                  *)
(***************************************************************************)
Visible == {m \in MsgIds : queue[m].status = "visible"}

\* A producer sends a message.
SendMessage ==
    /\ mode \in {"continuous", "loop"}
    /\ \E m \in MsgIds, b \in Bodies :
          /\ queue[m].status = "unsent"
          /\ queue' = [queue EXCEPT ![m] = [status |-> "visible", body |-> b]]
    /\ UNCHANGED <<wrapper, mode, pc, table, questions, message, interview_id,
                   sqs_message, interview, extracted, success, loop_calls,
                   calls, steps,
                   previous_run, fleetVars>>

\* The visibility timeout of a received message runs out: the queue makes it
\* visible again.
VisibilityTimeout ==
    /\ \E m \in MsgIds :
          /\ queue[m].status = "inflight"
          /\ queue' = [queue EXCEPT ![m].status = "visible"]
    /\ UNCHANGED <<wrapper, mode, pc, table, questions, message, interview_id,
                   sqs_message, interview, extracted, success, loop_calls,
                   calls, steps,
                   previous_run, fleetVars>>

(***************************************************************************)
(* sqs_handler.py: SQSHandler                                              *)
(***************************************************************************)
\* parse_message_body: what it returns for a body.
\*   "dict"  - the parsed object, which holds interview_id
\*   "other" - a parsed string or array in which `'interview_id' in` is true
\*   "None"  - everything else (missing key, JSONDecodeError, or the
\*             TypeError of `in` on a scalar, caught by except Exception)
parse_message_body(b) ==
    CASE b.shape = "object_with_id" -> "dict"
      [] b.shape = "container_with" -> "other"
      [] OTHER -> "None"

\* A message that is gone although the client call raised.
QueueAfterDeleteAlways(q, m, ok) == [q EXCEPT ![m].status = "deleted"]

\* delete_message / change_message_visibility on a message that carries a
\* ReceiptHandle: the client call either succeeds or raises, and the handler
\* returns True or False. ok is the client call's fate.
QueueAfterDelete(q, m, ok) ==
    IF ok THEN [q EXCEPT ![m].status = "deleted"] ELSE q

\* A successful extension restarts the message's visibility window.
QueueAfterVisibility(q, m, ok) ==
    IF ok /\ q[m].status \in {"inflight", "visible"}
      THEN [q EXCEPT ![m].status = "inflight"]
      ELSE q

\* The message left in the queue whatever the callback did.
DeleteNever(s) == FALSE

\* The message deleted whatever the callback did.
DeleteAlways(s) == TRUE

\* if success: self.delete_message(message)
DeleteAfterCallback(s) == s = "true"

\* An exception that escapes run_message_processor.
AfterExceptionCrashed == "crashed"

\* Lines 196-198 and 203-206: an exception of the callback, of the poll or of
\* anything else in the loop body is logged (the outer handler also sleeps
\* 5 s) and the loop goes on to its next poll.
AfterException == "poll"

\* Lines 163-168: poll_messages(max_messages=1); no message, or the poll
\* raises and the loop sleeps 5 s: either way the loop polls again.
PollNothing ==
    /\ mode \in {"continuous", "loop"}
    /\ pc = "poll"
    /\ \E ok \in BOOLEAN :
          /\ ok => Visible = {}
          /\ loop_calls' = <<Call("receive_message", <<"300">>, ok)>>
          /\ pc' = (IF ok THEN "poll" ELSE AfterException)
    /\ message' = {}
    /\ success' = "none"
    /\ UNCHANGED <<wrapper, mode, queue, table, questions, interview_id,
                   sqs_message, interview, extracted, calls, steps,
                   previous_run, fleetVars>>

\* A poll issued wherever the worker is, a run in progress included.
PollMessageWhileBusy ==
    /\ mode \in {"continuous", "loop"}
    /\ pc # "interrupted"
    /\ \E m \in Visible :
          /\ queue' = [queue EXCEPT ![m].status = "inflight"]
          /\ message' = {m}
    /\ loop_calls' = <<Call("receive_message", <<"300">>, TRUE)>>
    /\ success' = "none"
    /\ pc' = "parse"
    /\ UNCHANGED <<wrapper, mode, table, questions, interview_id, sqs_message,
                   interview, extracted, calls, steps,
                   previous_run, fleetVars>>

\* Lines 37-49: one visible message is received and hidden for 300 s.
PollMessage ==
    /\ mode \in {"continuous", "loop"}
    /\ pc = "poll"
    /\ \E m \in Visible :
          /\ queue' = [queue EXCEPT ![m].status = "inflight"]
          /\ message' = {m}
    /\ loop_calls' = <<Call("receive_message", <<"300">>, TRUE)>>
    /\ success' = "none"
    /\ pc' = "parse"
    /\ UNCHANGED <<wrapper, mode, table, questions, interview_id, sqs_message,
                   interview, extracted, calls, steps,
                   previous_run, fleetVars>>

\* Lines 172-177: the body is unparseable: the message is deleted.
ParseDiscard ==
    /\ pc = "parse"
    /\ \E m \in message :
          /\ parse_message_body(queue[m].body) = "None"
          /\ \E ok \in BOOLEAN :
                /\ queue' = QueueAfterDelete(queue, m, ok)
                /\ loop_calls' = Append(loop_calls, Call("delete_message", <<>>, ok))
    /\ pc' = "poll"
    /\ UNCHANGED <<wrapper, mode, table, questions, message, interview_id,
                   sqs_message, interview, extracted, success, calls, steps,
                   previous_run, fleetVars>>

\* Lines 172-182: the body parsed to a dict; the visibility timeout is
\* extended to 600 s (the extension may fail, which is only logged).
ParseAndExtend ==
    /\ pc = "parse"
    /\ \E m \in message :
          /\ parse_message_body(queue[m].body) = "dict"
          /\ interview_id' = queue[m].body.interview_id
          /\ \E ok \in BOOLEAN :
                /\ queue' = QueueAfterVisibility(queue, m, ok)
                /\ loop_calls' =
                      Append(loop_calls, Call("change_message_visibility", <<"600">>, ok))
    /\ pc' = "callback"
    /\ UNCHANGED <<wrapper, mode, table, questions, message, sqs_message,
                   interview, extracted, success, calls, steps,
                   previous_run, fleetVars>>

\* Line 179: parsed_body['interview_id'] on a string or a list raises
\* TypeError, caught at line 203: the loop sleeps 5 s and polls again.
ParseCrash ==
    /\ pc = "parse"
    /\ \E m \in message : parse_message_body(queue[m].body) = "other"
    /\ pc' = AfterException
    /\ UNCHANGED <<wrapper, mode, queue, table, questions, message, interview_id,
                   sqs_message, interview, extracted, success, loop_calls,
                   calls, steps,
                   previous_run, fleetVars>>

\* Line 186 with an arbitrary processor_callback: it returns True, returns
\* False or raises.
CallbackAny ==
    /\ mode = "loop"
    /\ pc = "callback"
    /\ success' \in {"true", "false", "raised"}
    /\ pc' = "after_callback"
    /\ UNCHANGED <<wrapper, mode, queue, table, questions, message, interview_id,
                   sqs_message, interview, extracted, loop_calls, calls, steps,
                   previous_run, fleetVars>>

\* What the run that has just returned did. When every call it issued
\* succeeded and its sub-operation returned a list: the interview it loaded,
\* what it returned and the questions persisted when it returned.
RunSummary ==
    IF "subop" \in steps /\ \A i \in 1..Len(calls) : calls[i].ok
      THEN [ran |-> TRUE,
            id |-> interview.id,
            all_ok |-> TRUE,
            returned_true |-> ("completed" \in steps),
            persisted |-> Len(questions)]
      ELSE FailedRun

\* Line 186 in the program: the callback is process_interview_message.
CallbackWorkflow ==
    /\ mode = "continuous"
    /\ pc = "callback"
    /\ sqs_message' = message
    /\ interview' = NoItem
    /\ extracted' = None
    /\ calls' = <<>>
    /\ steps' = {}
    /\ wrapper' = IdleWrapper
    /\ previous_run' = (IF calls = <<>> THEN NoRun ELSE RunSummary)
    /\ pc' = "wf_validate_id"
    /\ UNCHANGED <<mode, queue, table, questions, message, interview_id,
                   success, loop_calls, fleetVars>>

\* Lines 200-202: KeyboardInterrupt, wherever the loop is, ends it.
Interrupt ==
    /\ mode \in {"continuous", "loop"}
    /\ pc # "interrupted"
    /\ pc' = "interrupted"
    /\ UNCHANGED <<wrapper, mode, queue, table, questions, message, interview_id,
                   sqs_message, interview, extracted, success, loop_calls,
                   calls, steps, previous_run, fleetVars>>

\* Lines 188-198: the message is deleted if the callback returned True;
\* otherwise (False, or an exception caught at line 196) it is left alone.
AfterCallback ==
    /\ pc = "after_callback"
    /\ \E m \in message :
          IF DeleteAfterCallback(success)
            THEN \E ok \in BOOLEAN :
                    /\ queue' = QueueAfterDelete(queue, m, ok)
                    /\ loop_calls' = Append(loop_calls, Call("delete_message", <<>>, ok))
            ELSE UNCHANGED <<queue, loop_calls>>
    /\ pc' = (IF success = "raised" THEN AfterException ELSE "poll")
    /\ UNCHANGED <<wrapper, mode, table, questions, message, interview_id,
                   sqs_message, interview, extracted, success, calls, steps,
                   previous_run, fleetVars>>

(***************************************************************************)
(* error_handling.py: validation                                           *)
(***************************************************************************)
\* validate_uuid: TRUE when uuid.UUID(value) accepts the value.
validate_uuid(v) == v # "" /\ v \in WellFormedUUIDs

\* path.startswith('s3://') and path.startswith('videos/')
StartsWithS3(p) == Len(p) >= 3 /\ p[1] = "s3:" /\ p[2] = ""
StartsWithVideos(p) == Len(p) >= 2 /\ p[1] = "videos"

\* A path check that accepts every path that is not empty.
validate_any_path(p) == p # <<>>

validate_s3_path(p) == p # <<>> /\ (StartsWithS3(p) \/ StartsWithVideos(p))

\* validate_interview_data: TRUE when no ValidationError is raised.
validate_interview_data(i) ==
    /\ i # NoItem
    /\ i.id # "" /\ i.video_path # <<>> /\ i.user_id # ""
    /\ validate_uuid(i.id)
    /\ validate_uuid(i.user_id)
    /\ validate_s3_path(i.video_path)

(***************************************************************************)
(* dynamodb_handler.py: DynamoDBHandler                                    *)
(***************************************************************************)
\* update_item with SET #state = :state, updated_at = :updated_at and no
\* condition: the item is updated, or created when the key holds none.
UpdateItem(t, k, state) ==
    [t EXCEPT ![k] = [(IF @ = NoItem THEN [NoItem EXCEPT !.id = k] ELSE @)
                        EXCEPT !.state = state, !.updated_at = "now"]]

\* The item written whatever the fate of the client call.
TableAfterUpdateAlways(t, k, state, ok) == UpdateItem(t, k, state)

\* update_interview_state: ok is the fate of the client call; the handler
\* returns True when it went through and False when it raised.
TableAfterUpdate(t, k, state, ok) == IF ok THEN UpdateItem(t, k, state) ELSE t

\* def save_questions_batch(self, interview_id, user_id, questions)
save_questions_batch_params == <<"interview_id", "user_id", "questions">>

\* The put requests save_questions_batch builds (lines 127-159).
PutRequests(k, user, qs) ==
    [i \in 1..Len(qs) |->
        [interview_id |-> k, user_id |-> user, question |-> qs[i].question,
         answer |-> qs[i].answer]]

(***************************************************************************)
(* interview_workflow.py: InterviewProcessingWorkflow                      *)
(***************************************************************************)
\* A call that passes the three arguments the method takes.
save_call_args_three == <<"interview_id", "user_id", "questions">>

\* The positional arguments of the call at lines 118-120.
save_call_args ==
    <<"interview_id", "user_id", "questions", "interview_type",
      "programming_language">>

\* Python binds positional arguments to parameters one to one; the method
\* has no defaults and no *args, so any other count raises TypeError.
CallBinds(args, params) == Len(args) = Len(params)

\* The result of the update to 'processing' ignored.
ProcessingUpdateIgnored(ok) == FALSE

\* if not self.dynamodb_handler.update_interview_state(interview_id, 'processing'): raise
ProcessingUpdateRaises(ok) == ~ok

\* An except block that reports success.
HandlerReturnTrue == "true"

\* An except block that raises again.
HandlerReraises == "raised"

\* The value both except blocks return (lines 154 and 170).
HandlerReturn == "false"

\* Where process_interview_message returns to.
ReturnPc == IF mode = "continuous" THEN "after_callback" ELSE "exit"

\* Lines 187-194: a key under videos/ is made a full S3 URI.
normalize_video_path(p) ==
    IF StartsWithVideos(p) THEN <<"s3:", "", S3_BUCKET>> \o p ELSE p

\* The questions an extraction returns, already in the database format.
ExtractedQuestions(n) ==
    [i \in 1..n |-> [question |-> i, answer |-> "generated", context |-> ""]]

\* Lines 69-72.
WfValidateId ==
    /\ pc = "wf_validate_id"
    /\ IF validate_uuid(interview_id)
         THEN steps' = steps \cup {"validate_id"} /\ pc' = "wf_load"
         ELSE steps' = steps /\ pc' = "wf_failed"
    /\ UNCHANGED <<wrapper, mode, queue, table, questions, message, interview_id,
                   sqs_message, interview, extracted, success, loop_calls, calls,
                   previous_run, fleetVars>>

\* Lines 77-82: get_interview_by_id raises (the client call failed), returns
\* None (no item), or returns the item.
WfLoad ==
    /\ pc = "wf_load"
    /\ \E ok \in BOOLEAN :
          /\ calls' = Append(calls, Call("get_item", <<interview_id>>, ok))
          /\ IF ok /\ table[interview_id] # NoItem
               THEN /\ interview' = table[interview_id]
                    /\ steps' = steps \cup {"load"}
                    /\ pc' = "wf_validate_record"
               ELSE /\ pc' = "wf_failed"
                    /\ UNCHANGED <<interview, steps>>
    /\ UNCHANGED <<wrapper, mode, queue, table, questions, message, interview_id,
                   sqs_message, extracted, success, loop_calls,
                   previous_run, fleetVars>>

\* Lines 84-92.
WfValidateRecord ==
    /\ pc = "wf_validate_record"
    /\ IF validate_interview_data(interview)
         THEN steps' = steps \cup {"validate_record"} /\ pc' = "wf_mark_processing"
         ELSE steps' = steps /\ pc' = "wf_failed"
    /\ UNCHANGED <<wrapper, mode, queue, table, questions, message, interview_id,
                   sqs_message, interview, extracted, success, loop_calls, calls,
                   previous_run, fleetVars>>

\* Lines 94-99.
WfMarkProcessing ==
    /\ pc = "wf_mark_processing"
    /\ \E ok \in BOOLEAN :
          /\ table' = TableAfterUpdate(table, interview_id, "processing", ok)
          /\ calls' = Append(calls, Call("update_item", <<"processing">>, ok))
          /\ IF ProcessingUpdateRaises(ok)
               THEN steps' = steps /\ pc' = "wf_failed"
               ELSE steps' = steps \cup {"processing"} /\ pc' = "wf_extend"
    /\ UNCHANGED <<wrapper, mode, queue, questions, message, interview_id,
                   sqs_message, interview, extracted, success, loop_calls,
                   previous_run, fleetVars>>

\* A workflow that never asks for more time.
HandlePassedNever(h) == FALSE

\* Line 105: if sqs_message (None in mode single-interview).
HandlePassed(h) == h # {}

\* Lines 104-108: the visibility extension, only with a message, and the
\* entry into the retry wrapper of the sub-operation.
WfExtendVisibility ==
    /\ pc = "wf_extend"
    /\ IF HandlePassed(sqs_message)
         THEN \E m \in sqs_message, ok \in BOOLEAN :
                 /\ queue' = QueueAfterVisibility(queue, m, ok)
                 /\ calls' = Append(calls,
                                    Call("change_message_visibility", <<"1800">>, ok))
         ELSE UNCHANGED <<queue, calls>>
    /\ wrapper' = IdleWrapper
    /\ pc' = "sub_media"
    /\ UNCHANGED <<mode, table, questions, message, interview_id, sqs_message,
                   interview, extracted, success, loop_calls, steps,
                   previous_run, fleetVars>>

\* Lines 185-202: process_video returns status success or error.
SubMedia ==
    /\ pc = "sub_media"
    /\ \E ok \in BOOLEAN :
          /\ calls' = Append(calls, Call("process_video",
                                         normalize_video_path(interview.video_path), ok))
          /\ IF ok
               THEN pc' = "sub_transcribe" /\ UNCHANGED extracted
               ELSE pc' = "sub_return" /\ extracted' = None
    /\ UNCHANGED <<wrapper, mode, queue, table, questions, message, interview_id,
                   sqs_message, interview, success, loop_calls, steps,
                   previous_run, fleetVars>>

\* The attempt going on to extraction whatever the transcription returned.
TranscriptUsableAlways(r) == TRUE

\* Lines 212-222: the attempt goes on to extraction only when the status is
\* 'success' and full_transcript is not empty; otherwise it returns None.
TranscriptUsable(r) == r = "text"

\* Lines 204-222: transcribe_audio returns status success with a transcript,
\* status success with an empty transcript, or status error (the job FAILED
\* or the wait timed out).
SubTranscribe ==
    /\ pc = "sub_transcribe"
    /\ \E r \in {"text", "empty", "FAILED", "timeout"} :
          /\ calls' = Append(calls, Call("transcribe_audio", <<r>>,
                                         r \in {"text", "empty"}))
          /\ IF TranscriptUsable(r)
               THEN pc' = "sub_extract" /\ UNCHANGED extracted
               ELSE pc' = "sub_return" /\ extracted' = None
    /\ UNCHANGED <<wrapper, mode, queue, table, questions, message, interview_id,
                   sqs_message, interview, success, loop_calls, steps,
                   previous_run, fleetVars>>

\* Lines 224-233: extract_questions returns status success with n questions
\* or status error. A first request that failed (no client, a request
\* error, an unparseable response) is a returned [] inside extract_questions
\* (question_extractor.py lines 33-129 and 226-232): status success with no
\* questions, marked "request_failed" in the log of calls.
SubExtract ==
    /\ pc = "sub_extract"
    /\ \E ok \in BOOLEAN, n \in 0..MaxQuestions, request_failed \in BOOLEAN :
          /\ ~ok => n = 0 /\ ~request_failed
          /\ request_failed => n = 0
          /\ calls' = Append(calls, Call("extract_questions",
                                         IF request_failed THEN <<"request_failed">>
                                                           ELSE <<>>, ok))
          /\ extracted' = IF ok THEN Some(ExtractedQuestions(n)) ELSE None
    /\ pc' = "sub_return"
    /\ UNCHANGED <<wrapper, mode, queue, table, questions, message, interview_id,
                   sqs_message, interview, success, loop_calls, steps,
                   previous_run, fleetVars>>

\* The attempt returns to the retry wrapper (every failure inside the
\* attempt is a returned None, lines 202, 214, 222, 228 and 235-237), and
\* the wrapper's result reaches lines 108-113.
SubReturn ==
    /\ pc = "sub_return"
    /\ LET o == [kind |-> "return", code |-> "", value |-> extracted]
           w1 == AfterAttempt(wrapper, o)
       IN  IF w1.status = "backoff"
             THEN /\ wrapper' = AfterBackoff(w1)
                  /\ pc' = "sub_media"
                  /\ steps' = steps
             ELSE /\ wrapper' = w1
                  /\ IF w1.status = "returned" /\ ~w1.result.value.is_none
                       THEN steps' = steps \cup {"subop"} /\ pc' = "wf_save"
                       ELSE steps' = steps /\ pc' = "wf_failed"
    /\ UNCHANGED <<mode, queue, table, questions, message, interview_id,
                   sqs_message, interview, extracted, success, loop_calls, calls,
                   previous_run, fleetVars>>

\* Lines 115-138: the call of save_questions_batch and, when it returns
\* True, the update to 'completed' and the return of True.
WfSaveAndComplete ==
    /\ pc = "wf_save"
    /\ IF ~CallBinds(save_call_args, save_questions_batch_params)
         THEN \* TypeError, caught at line 156
              /\ pc' = "wf_failed"
              /\ UNCHANGED <<table, questions, calls, steps, success>>
         ELSE \E saved \in BOOLEAN, updated \in BOOLEAN :
              LET reqs == PutRequests(interview_id, interview.user_id, extracted.list)
                  c1 == IF reqs = <<>> THEN calls
                        ELSE Append(calls, Call("batch_write_item", <<>>, saved))
                  save_ok == reqs = <<>> \/ saved
              IN  IF ~save_ok
                    THEN /\ pc' = "wf_failed"
                         /\ calls' = c1
                         /\ UNCHANGED <<table, questions, steps, success>>
                  ELSE /\ questions' = questions \o reqs
                       /\ table' = TableAfterUpdate(table, interview_id, "completed", updated)
                       /\ calls' = Append(c1, Call("update_item", <<"completed">>, updated))
                       /\ IF updated
                            THEN /\ steps' = steps \cup {"save", "completed"}
                                 /\ success' = "true"
                                 /\ pc' = ReturnPc
                            ELSE /\ steps' = steps \cup {"save"}
                                 /\ success' = success
                                 /\ pc' = "wf_failed"
    /\ UNCHANGED <<wrapper, mode, queue, message, interview_id, sqs_message,
                   interview, extracted, loop_calls,
                   previous_run, fleetVars>>

\* The except blocks without their update to 'failed'.
WfFailedNoUpdate ==
    /\ pc = "wf_failed"
    /\ success' = "false"
    /\ pc' = (IF mode = "continuous" THEN "after_callback" ELSE "exit")
    /\ UNCHANGED <<wrapper, mode, queue, table, questions, message, interview_id,
                   sqs_message, interview, extracted, loop_calls, calls, steps,
                   previous_run, fleetVars>>

\* The except blocks putting the interview back to 'pending'.
WfFailedResetsToPending ==
    /\ pc = "wf_failed"
    /\ \E ok \in BOOLEAN :
          /\ table' = TableAfterUpdate(table, interview_id, "pending", ok)
          /\ calls' = Append(calls, Call("update_item", <<"pending">>, ok))
    /\ success' = "false"
    /\ pc' = (IF mode = "continuous" THEN "after_callback" ELSE "exit")
    /\ UNCHANGED <<wrapper, mode, queue, questions, message, interview_id,
                   sqs_message, interview, extracted, loop_calls, steps,
                   previous_run, fleetVars>>

\* Lines 140-170: both except blocks log, try the update to 'failed' (whose
\* own failure is only logged) and return False.
WfFailed ==
    /\ pc = "wf_failed"
    /\ \E ok \in BOOLEAN :
          /\ table' = TableAfterUpdate(table, interview_id, "failed", ok)
          /\ calls' = Append(calls, Call("update_item", <<"failed">>, ok))
    /\ success' = HandlerReturn
    /\ pc' = ReturnPc
    /\ UNCHANGED <<wrapper, mode, queue, questions, message, interview_id,
                   sqs_message, interview, extracted, loop_calls, steps,
                   previous_run, fleetVars>>

WorkflowNext ==
    \/ WfValidateId
    \/ WfLoad
    \/ WfValidateRecord
    \/ WfMarkProcessing
    \/ WfExtendVisibility
    \/ SubMedia
    \/ SubTranscribe
    \/ SubExtract
    \/ SubReturn
    \/ WfSaveAndComplete
    \/ WfFailed

LoopNext ==
    \/ SendMessage
    \/ VisibilityTimeout
    \/ PollNothing
    \/ PollMessage
    \/ ParseDiscard
    \/ ParseAndExtend
    \/ ParseCrash
    \/ AfterCallback
    \/ Interrupt

Next == LoopNext \/ CallbackWorkflow \/ WorkflowNext

Spec == Init /\ [][Next]_vars

NextLoop == LoopNext \/ CallbackAny

SpecLoop == InitLoop /\ [][NextLoop]_vars

NextRetry == RetryAttempt \/ RetryBackoff

SpecRetry == InitRetry /\ [][NextRetry]_vars

(***************************************************************************)
(* Several worker processes consuming the same queue, with time.  Each     *)
(* worker runs run_message_processor with process_interview_message as the *)
(* callback; the steps of one message are taken at the granularity of the  *)
(* queue and state-update calls.  Time passes only while a worker waits    *)
(* for a message or is inside the sub-operation, whose length is bounded   *)
(* by the transcription wait; every other step takes no time.  The         *)
(* visibility requests are taken to succeed, so that the windows are the   *)
(* ones the code asks for.                                                 *)
(***************************************************************************)
MaxWorkers == 2         \* worker processes
MaxTime == 14           \* the clock runs over 0..MaxTime

\* The clock counts units of 300 s.
Seconds(s) == s \div 300

\* VisibilityTimeout=300 in poll_messages
ReceiveVisibility == Seconds(300)
\* self.change_message_visibility(message, 600)
LoopVisibility == Seconds(600)
\* self.sqs_handler.change_message_visibility(sqs_message, 1800)
WorkflowVisibility == Seconds(1800)
\* wait_for_job_completion(job_name, max_wait_time=3600, ...)
max_wait_time == Seconds(3600)

Workers == 1..MaxWorkers
NoMessage == 0

\* pc: where the worker is; message: the message it holds; since: when its
\* sub-operation started; marked: its update to 'processing' went through
\* and its terminal update has not been issued yet.
IdleWorker == [pc |-> "poll", message |-> NoMessage, since |-> 0, marked |-> FALSE]

singleVars == <<wrapper, mode, pc, questions, message, interview_id, sqs_message,
                interview, extracted, success, loop_calls, calls, steps,
                previous_run>>

InitWorkers ==
    /\ mode = "workers"
    /\ wrapper = IdleWrapper
    /\ pc = "workers"
    /\ table = [k \in InterviewIds |->
                   IF k \in InterviewUUIDs
                     THEN PendingInterview(k, KeyPath, UserUUID) ELSE NoItem]
    /\ questions = <<>>
    /\ \E k \in InterviewUUIDs :
          queue = [m \in MsgIds |->
                      [status |-> "visible",
                       body |-> [shape |-> "object_with_id", interview_id |-> k]]]
    /\ InitRun
    /\ message = {}
    /\ sqs_message = {}
    /\ interview_id = ""
    /\ now = 0
    /\ workers = [w \in Workers |-> IdleWorker]
    /\ deadline = [m \in MsgIds |-> 0]

InterviewOf(w) == queue[workers[w].message].body.interview_id

\* Time passes: no worker is between two steps that take no time, and no
\* sub-operation has used up the transcription wait.
Tick ==
    /\ mode = "workers"
    /\ now < MaxTime
    /\ \A w \in Workers :
          /\ workers[w].pc \in {"poll", "subop"}
          /\ workers[w].pc = "subop" => now - workers[w].since < max_wait_time
    /\ now' = now + 1
    /\ UNCHANGED <<singleVars, queue, table, workers, deadline>>

\* The visibility window of a received message has ended.
WindowEnds ==
    /\ mode = "workers"
    /\ \E m \in MsgIds :
          /\ queue[m].status = "inflight"
          /\ now >= deadline[m]
          /\ queue' = [queue EXCEPT ![m].status = "visible"]
    /\ UNCHANGED <<singleVars, table, now, workers, deadline>>

\* sqs_handler.py:37-44: a worker receives a visible message for 300 s.
WorkerReceive ==
    /\ mode = "workers"
    /\ \E w \in Workers, m \in MsgIds :
          /\ workers[w].pc = "poll"
          /\ queue[m].status = "visible"
          /\ queue' = [queue EXCEPT ![m].status = "inflight"]
          /\ deadline' = [deadline EXCEPT ![m] = now + ReceiveVisibility]
          /\ workers' = [workers EXCEPT ![w] = [IdleWorker EXCEPT !.pc = "extend",
                                                                  !.message = m]]
    /\ UNCHANGED <<singleVars, table, now>>

\* sqs_handler.py:182: the window is set to 600 s from now.
WorkerExtend ==
    /\ mode = "workers"
    /\ \E w \in Workers :
          /\ workers[w].pc = "extend"
          /\ deadline' = [deadline EXCEPT ![workers[w].message] = now + LoopVisibility]
          /\ workers' = [workers EXCEPT ![w].pc = "mark_processing"]
    /\ UNCHANGED <<singleVars, queue, table, now>>

\* interview_workflow.py:69-99: the load, the validation and the update to
\* 'processing'; when any of them fails the run goes to its except block.
WorkerMarkProcessing ==
    /\ mode = "workers"
    /\ \E w \in Workers, ok \in BOOLEAN :
          /\ workers[w].pc = "mark_processing"
          /\ table' = TableAfterUpdate(table, InterviewOf(w), "processing", ok)
          /\ workers' = [workers EXCEPT ![w].pc = IF ok THEN "wf_extend" ELSE "wf_failed",
                                        ![w].marked = ok]
    /\ UNCHANGED <<singleVars, queue, now, deadline>>

\* interview_workflow.py:104-108: the window is set to 1800 s from now and
\* the sub-operation starts.
WorkerExtendInWorkflow ==
    /\ mode = "workers"
    /\ \E w \in Workers :
          /\ workers[w].pc = "wf_extend"
          /\ deadline' = [deadline EXCEPT ![workers[w].message] = now + WorkflowVisibility]
          /\ workers' = [workers EXCEPT ![w].pc = "subop", ![w].since = now]
    /\ UNCHANGED <<singleVars, queue, table, now>>

\* interview_workflow.py:108-120: the sub-operation returns, at the latest
\* when the transcription wait is used up; with None the run raises
\* VideoProcessingError, with a list the call of save_questions_batch raises
\* TypeError: either way the run is in an except block.
WorkerSubOperation ==
    /\ mode = "workers"
    /\ \E w \in Workers :
          /\ workers[w].pc = "subop"
          /\ now - workers[w].since <= max_wait_time
          /\ workers' = [workers EXCEPT ![w].pc = "wf_failed"]
    /\ UNCHANGED <<singleVars, queue, table, now, deadline>>

\* interview_workflow.py:140-170 and sqs_handler.py:191-194: the update to
\* 'failed', the return of False, and the message left in the queue.
WorkerFailed ==
    /\ mode = "workers"
    /\ \E w \in Workers, ok \in BOOLEAN :
          /\ workers[w].pc = "wf_failed"
          /\ table' = TableAfterUpdate(table, InterviewOf(w), "failed", ok)
          /\ workers' = [workers EXCEPT ![w] = IdleWorker]
    /\ UNCHANGED <<singleVars, queue, now, deadline>>

NextWorkers ==
    \/ Tick
    \/ WindowEnds
    \/ WorkerReceive
    \/ WorkerExtend
    \/ WorkerMarkProcessing
    \/ WorkerExtendInWorkflow
    \/ WorkerSubOperation
    \/ WorkerFailed

SpecWorkers == InitWorkers /\ [][NextWorkers]_vars

(***************************************************************************)
(* dynamodb_handler.py: save_questions_batch called on its own, with a     *)
(* list of questions drawn from a bounded set.  The put requests and the   *)
(* position of the for loop are functions of the input and of the batch    *)
(* writes issued so far, which are logged in calls.                        *)
(***************************************************************************)
MaxBatchInput == 52     \* questions handed to save_questions_batch

\* batch_size = 25
batch_size == 25

\* An item without the key 'question' has question 0.
HasQuestion(q) == q.question # 0

\* The input lists: n questions, the first of which may lack 'question'.
BatchInput(n, first_lacks_question) ==
    [i \in 1..n |->
        [question |-> IF i = 1 /\ first_lacks_question THEN 0 ELSE i,
         answer |-> "generated", context |-> ""]]

\* Lines 127-159: one put request per item that has 'question'; the others
\* are skipped.
put_requests(k, user, qs) == PutRequests(k, user, SelectSeq(qs, HasQuestion))

\* A batch one item longer than batch_size.
BatchTooLong(reqs, i) == SubSeq(reqs, i + 1, Min(i + batch_size + 1, Len(reqs)))

\* batch = put_requests[i:i + batch_size]
Batch(reqs, i) == SubSeq(reqs, i + 1, Min(i + batch_size, Len(reqs)))

\* The put requests of the call in progress and the index the for loop has
\* reached (i in range(0, len(put_requests), batch_size)).
CurrentRequests == put_requests(interview_id, UserUUID, extracted.list)
LoopIndex == batch_size * Len(calls)

batchVars == <<wrapper, mode, queue, table, message, interview_id, sqs_message,
               interview, extracted, loop_calls, steps, previous_run, fleetVars>>

InitBatch ==
    /\ mode = "batch"
    /\ wrapper = IdleWrapper
    /\ EmptyStore /\ InitQueue /\ IdleFleet
    /\ interview = NoItem
    /\ success = "none"
    /\ loop_calls = <<>>
    /\ calls = <<>>
    /\ steps = {}
    /\ previous_run = NoRun
    /\ message = {}
    /\ sqs_message = {}
    /\ pc = "batch_start"
    /\ interview_id \in InterviewUUIDs
    /\ \E n \in 0..MaxBatchInput, lacks \in BOOLEAN :
          /\ lacks => n >= 1
          /\ extracted = Some(BatchInput(n, lacks))

\* Lines 115-120: an empty list returns True at once.
BatchStart ==
    /\ mode = "batch"
    /\ pc = "batch_start"
    /\ IF extracted.list = <<>>
         THEN success' = "true" /\ pc' = "batch_done"
         ELSE success' = success /\ pc' = "batch_loop"
    /\ UNCHANGED <<batchVars, questions, calls>>

\* Lines 165-181: one iteration of the for loop. The client call returns
\* (with or without UnprocessedItems, which are only logged) or raises, and
\* then the handler returns False (lines 185-190). Of a batch with
\* unprocessed items the store has written all but the last item.
BatchWrite ==
    /\ mode = "batch"
    /\ pc = "batch_loop"
    /\ LoopIndex < Len(CurrentRequests)
    /\ LET batch == Batch(CurrentRequests, LoopIndex)
       IN  \E outcome \in {"written", "unprocessed", "raised"} :
             /\ calls' = Append(calls, Call("batch_write_item", batch, outcome # "raised"))
             /\ questions' =
                   CASE outcome = "written" -> questions \o batch
                     [] outcome = "unprocessed" -> questions \o SubSeq(batch, 1, Len(batch) - 1)
                     [] OTHER -> questions
             /\ IF outcome = "raised"
                  THEN success' = "false" /\ pc' = "batch_done"
                  ELSE success' = success /\ pc' = "batch_loop"
    /\ UNCHANGED batchVars

\* Lines 183-184: the for loop is over: return True.
BatchReturn ==
    /\ mode = "batch"
    /\ pc = "batch_loop"
    /\ LoopIndex >= Len(CurrentRequests)
    /\ success' = "true"
    /\ pc' = "batch_done"
    /\ UNCHANGED <<batchVars, questions, calls>>

NextBatch == BatchStart \/ BatchWrite \/ BatchReturn

SpecBatch == InitBatch /\ [][NextBatch]_vars

(***************************************************************************)
(* audio_transcriber.py: the run of one interview with transcribe_audio    *)
(* followed poll by poll.  now is the time in seconds since the start_time *)
(* of wait_for_job_completion.                                             *)
(***************************************************************************)
MaxCallSeconds == 1     \* seconds one status request may take

\* poll_interval: int = 30
poll_interval == 30

\* TranscriptionJobStatus as returned by get_transcription_job; "UNKNOWN"
\* stands for any status the loop does not name.
JobStatuses == {"COMPLETED", "FAILED", "IN_PROGRESS", "QUEUED", "UNKNOWN"}

\* A loop that goes on for five more minutes.
WithinMaxWaitLate(elapsed) == Seconds(elapsed) < max_wait_time + 1

\* while time.time() - start_time < max_wait_time (elapsed is whole seconds)
WithinMaxWait(elapsed) == Seconds(elapsed) < max_wait_time

\* transcribe_audio returns to lines 204-222 of the workflow: r is "text" or
\* "empty" (status success), "FAILED", "timeout" or "error" (status error,
\* lines 276-283).
TranscribeAudioReturns(r) ==
    /\ calls' = Append(calls, Call("transcribe_audio", <<r>>, r \in {"text", "empty"}))
    /\ now' = 0
    /\ IF TranscriptUsable(r)
         THEN pc' = "sub_extract" /\ UNCHANGED extracted
         ELSE pc' = "sub_return" /\ extracted' = None

\* Lines 248-261: start_transcription_job returns and the wait begins, or it
\* raises.
StartTranscription ==
    /\ pc = "sub_transcribe"
    /\ \E started \in BOOLEAN :
          IF started
            THEN /\ pc' = "wait_poll"
                 /\ now' = 0
                 /\ UNCHANGED <<calls, extracted>>
            ELSE TranscribeAudioReturns("error")
    /\ UNCHANGED <<wrapper, mode, queue, table, questions, message, interview_id,
                   sqs_message, interview, success, loop_calls, steps,
                   previous_run, workers, deadline>>

\* Lines 121-141: one evaluation of the while condition and, when it holds,
\* one status request: COMPLETED returns (and the transcript is fetched,
\* with or without text), FAILED raises, a request that raises propagates,
\* any other status sleeps poll_interval. When the condition fails
\* TimeoutError is raised.
WaitPoll ==
    /\ pc = "wait_poll"
    /\ IF ~WithinMaxWait(now)
         THEN TranscribeAudioReturns("timeout")
         ELSE \E status \in JobStatuses \cup {"raised"}, d \in 0..MaxCallSeconds :
                CASE status = "COMPLETED" ->
                        \E r \in {"text", "empty"} : TranscribeAudioReturns(r)
                  [] status = "FAILED" -> TranscribeAudioReturns("FAILED")
                  [] status = "raised" -> TranscribeAudioReturns("error")
                  [] OTHER ->
                        /\ now' = now + d + poll_interval
                        /\ UNCHANGED <<pc, calls, extracted>>
    /\ UNCHANGED <<wrapper, mode, queue, table, questions, message, interview_id,
                   sqs_message, interview, success, loop_calls, steps,
                   previous_run, workers, deadline>>

\* What the store may hold under key k when a single interview is run: the
\* items of InitialItems and an item without video_path (the attribute id
\* of an item is its key).
StoredItems(k) == InitialItems(k) \cup {PendingInterview(k, <<>>, UserUUID)}

\* main.py, mode single-interview.
InitTranscription ==
    /\ mode = "single"
    /\ wrapper = IdleWrapper
    /\ InitQueue /\ InitRun /\ IdleFleet
    /\ message = {}
    /\ sqs_message = {}
    /\ pc = "wf_validate_id"
    /\ interview_id \in InterviewIds
    /\ questions = <<>>
    /\ table \in [InterviewIds -> UNION {StoredItems(k) : k \in InterviewIds}]
    /\ \A k \in InterviewUUIDs : table[k] \in StoredItems(k)
    /\ \A k \in MalformedIds : table[k] = NoItem

NextTranscription ==
    \/ WfValidateId
    \/ WfLoad
    \/ WfValidateRecord
    \/ WfMarkProcessing
    \/ WfExtendVisibility
    \/ SubMedia
    \/ StartTranscription
    \/ WaitPoll
    \/ SubExtract
    \/ SubReturn
    \/ WfSaveAndComplete
    \/ WfFailed

\* The process keeps running: a step that can be taken is taken.
SpecTranscription ==
    InitTranscription /\ [][NextTranscription]_vars /\ WF_vars(NextTranscription)

(***************************************************************************)
(* question_extractor.py: extract_questions called on its own.  extracted  *)
(* holds the items of the JSON array the model answers the first request   *)
(* with and, after that request, raw_questions; questions holds            *)
(* complete_questions; success holds the status of the result.             *)
(***************************************************************************)
MaxRawQuestions == 3    \* items in the answer to the first request

\* An item of the answered array: a question, a question with a
\* question_context, or a question of at most 5 characters.
ItemKinds == {"plain", "with_context", "too_short"}

ResponseItem(i, kind) ==
    [question |-> i,
     question_context |-> IF kind = "with_context" THEN "context" ELSE "",
     long_enough |-> kind # "too_short"]

\* Lines 99-114: the items whose question is longer than 5 characters, each
\* reduced to question and (when not empty) question_context.
valid_questions(items) ==
    LET kept == SelectSeq(items, LAMBDA it : it.long_enough)
    IN  [i \in 1..Len(kept) |->
            [question |-> kept[i].question,
             question_context |-> kept[i].question_context]]

\* How the first request ends: an array is parsed (lines 96-114), there is
\* no client (34-36), invoke_model raises (124-129), the response has no
\* content (86-88) or holds no JSON array (115-122).
FirstRequestOutcomes ==
    {"array", "unavailable", "client_error", "no_content", "unparseable"}

\* extract_questions_only_with_bedrock returns [] on every failure.
raw_questions(items, outcome) ==
    IF outcome = "array" THEN valid_questions(items) ELSE <<>>

\* How one answer request ends: an answer, an empty answer (lines 196-198 or
\* an answer of blanks only), an exception inside the request (200-205, ""
\* is returned), or an exception in the body of the loop (284).
AnswerOutcomes == {"answer", "empty", "request_raised", "body_raised"}

\* Lines 262-293: the professional_answer of the item.
professional_answer(outcome) ==
    CASE outcome = "answer" -> "generated"
      [] outcome = "body_raised" -> "Answer generation failed: error"
      [] OTHER -> "Answer generation failed"

\* Lines 263-293: the item appended for a question.
complete_question(q, outcome) ==
    [question |-> q.question,
     question_context |-> q.question_context,
     professional_answer |-> professional_answer(outcome)]

\* A loop that drops the questions whose answer was not generated.
AppendOnlyAnswered(list, q, outcome) ==
    IF outcome = "answer" THEN Append(list, complete_question(q, outcome)) ELSE list

\* complete_questions.append(complete_question), in every branch.
AppendAnswered(list, q, outcome) == Append(list, complete_question(q, outcome))

\* The number of questions the loop at line 249 has dealt with.
AnswersRequested ==
    Len(SelectSeq(calls, LAMBDA c : c.op = "generate_professional_answer"))

extractVars == <<wrapper, mode, queue, table, message, interview_id, sqs_message,
                 interview, loop_calls, steps, previous_run, fleetVars>>

InitExtract ==
    /\ mode = "extract"
    /\ wrapper = IdleWrapper
    /\ EmptyStore /\ InitQueue /\ IdleFleet
    /\ interview = NoItem
    /\ interview_id = ""
    /\ success = "none"
    /\ loop_calls = <<>>
    /\ calls = <<>>
    /\ steps = {}
    /\ previous_run = NoRun
    /\ message = {}
    /\ sqs_message = {}
    /\ questions = <<>>
    /\ pc = "extract_first"
    /\ \E n \in 0..MaxRawQuestions :
          \E kinds \in [1..n -> ItemKinds] :
             extracted = Some([i \in 1..n |-> ResponseItem(i, kinds[i])])

\* Lines 221-243: the first request; without questions the result is
\* status success with an empty list.
ExtractFirst ==
    /\ mode = "extract"
    /\ pc = "extract_first"
    /\ \E outcome \in FirstRequestOutcomes :
          LET raw == raw_questions(extracted.list, outcome)
          IN  /\ calls' = IF outcome = "unavailable" THEN calls
                          ELSE Append(calls, Call("extract_questions_only", <<outcome>>,
                                                  outcome = "array"))
              /\ extracted' = Some(raw)
              /\ IF raw = <<>>
                   THEN success' = "success" /\ pc' = "extract_done"
                   ELSE success' = success /\ pc' = "extract_loop"
    /\ UNCHANGED <<extractVars, questions>>

\* Lines 249-293: one iteration of the loop over raw_questions.
ExtractAnswer ==
    /\ mode = "extract"
    /\ pc = "extract_loop"
    /\ AnswersRequested < Len(extracted.list)
    /\ \E outcome \in AnswerOutcomes :
          /\ calls' = Append(calls, Call("generate_professional_answer", <<outcome>>,
                                         outcome = "answer"))
          /\ questions' = AppendAnswered(questions,
                                         extracted.list[AnswersRequested + 1], outcome)
    /\ UNCHANGED <<extractVars, extracted, success, pc>>

\* Lines 295-307: the loop is over; the result has status success.
ExtractReturn ==
    /\ mode = "extract"
    /\ pc = "extract_loop"
    /\ AnswersRequested >= Len(extracted.list)
    /\ success' = "success"
    /\ pc' = "extract_done"
    /\ UNCHANGED <<extractVars, extracted, questions, calls>>

NextExtract == ExtractFirst \/ ExtractAnswer \/ ExtractReturn

SpecExtract == InitExtract /\ [][NextExtract]_vars

(***************************************************************************)
(* interview_workflow.py: _format_questions_for_database called on its     *)
(* own.  extracted holds raw_questions, questions holds                    *)
(* formatted_questions and steps the indices of the items the loop has     *)
(* visited.                                                                *)
(***************************************************************************)
MaxFormatInput == 3    \* items of raw_questions

\* A key the dict does not hold.
NoKey == "<no key>"

\* The values under professional_answer, answer, question_context and
\* context: no key at all, what extract_questions builds, what the questions
\* table holds, both, and keys that are present with an empty first value.
FieldShapes ==
    {<<NoKey, NoKey, NoKey, NoKey>>,
     <<"pa", NoKey, "qc", NoKey>>,
     <<NoKey, "a", NoKey, "c">>,
     <<"pa", "a", "qc", "c">>,
     <<"", "a", "", "c">>}

\* The items of raw_questions: dicts, strings and anything else.
DictItems ==
    {[kind |-> "dict", question |-> q, professional_answer |-> f[1], answer |-> f[2],
      question_context |-> f[3], context |-> f[4]] :
        q \in {NoKey, " ", "Q"}, f \in FieldShapes}
StrItems ==
    {[kind |-> "str", question |-> s, professional_answer |-> NoKey, answer |-> NoKey,
      question_context |-> NoKey, context |-> NoKey] : s \in {"", " ", "Q"}}
OtherItems ==
    {[kind |-> "other", question |-> NoKey, professional_answer |-> NoKey,
      answer |-> NoKey, question_context |-> NoKey, context |-> NoKey]}
RawItems == DictItems \cup StrItems \cup OtherItems

\* dict.get(key, default).
get(d, key, default) == IF d[key] = NoKey THEN default ELSE d[key]

\* A strip that removes nothing.
strip_nothing(s) == s

\* str.strip().
strip(s) == IF s \in {"", " "} THEN "" ELSE s

\* Lines 252-263: formatted_question, {} for an item that is neither a dict
\* nor a string.
formatted_question(question) ==
    CASE question.kind = "dict" ->
           [question |-> get(question, "question", ""),
            answer |-> get(question, "professional_answer", get(question, "answer", "")),
            context |-> get(question, "question_context", get(question, "context", ""))]
      [] question.kind = "str" ->
           [question |-> question.question, answer |-> "", context |-> ""]
      [] OTHER -> [question |-> NoKey, answer |-> NoKey, context |-> NoKey]

\* Lines 266-267: the list after the item has been dealt with.
AppendFormatted(list, question) ==
    IF strip(get(formatted_question(question), "question", "")) # ""
      THEN Append(list, formatted_question(question))
      ELSE list

\* The number of items the loop at line 251 has visited.
ItemsVisited == Cardinality(steps)

InitFormat ==
    /\ mode = "format"
    /\ wrapper = IdleWrapper
    /\ EmptyStore /\ InitQueue /\ IdleFleet
    /\ interview = NoItem
    /\ interview_id = ""
    /\ success = "none"
    /\ loop_calls = <<>>
    /\ calls = <<>>
    /\ steps = {}
    /\ previous_run = NoRun
    /\ message = {}
    /\ sqs_message = {}
    /\ questions = <<>>
    /\ pc = "format_loop"
    /\ \E n \in 0..MaxFormatInput :
          \E items \in [1..n -> RawItems] : extracted = Some(items)

\* Lines 251-267: one iteration of the loop over raw_questions.
FormatItem ==
    /\ mode = "format"
    /\ pc = "format_loop"
    /\ ItemsVisited < Len(extracted.list)
    /\ questions' = AppendFormatted(questions, extracted.list[ItemsVisited + 1])
    /\ steps' = steps \cup {ItemsVisited + 1}
    /\ UNCHANGED <<wrapper, mode, pc, queue, table, message, interview_id, sqs_message,
                   interview, extracted, success, loop_calls, calls, previous_run,
                   fleetVars>>

\* Line 269: return formatted_questions.
FormatReturn ==
    /\ mode = "format"
    /\ pc = "format_loop"
    /\ ItemsVisited >= Len(extracted.list)
    /\ pc' = "format_done"
    /\ UNCHANGED <<wrapper, mode, queue, table, questions, message, interview_id,
                   sqs_message, interview, extracted, success, loop_calls, calls,
                   steps, previous_run, fleetVars>>

NextFormat == FormatItem \/ FormatReturn

SpecFormat == InitFormat /\ [][NextFormat]_vars

(***************************************************************************)
(* Properties of the workflow (checked under Spec).                        *)
(***************************************************************************)
\* process_interview_message has returned and no new run has started.
RunReturned ==
    /\ mode \in {"continuous", "single"}
    /\ success \in {"true", "false"}
    /\ pc \in {"after_callback", "exit"}

AllSteps ==
    {"validate_id", "load", "validate_record", "processing", "subop", "save",
     "completed"}

IsUpdate(c, state) == c.op = "update_item" /\ c.arg = <<state>>

LastCall == calls[Len(calls)]

\* The states the run asked the store to write, accepted or not, in order.
StateUpdates == SelectSeq(calls, LAMBDA c : c.op = "update_item")

\* The state the run wrote last (accepted by the store), "" when none.
AcceptedUpdates == SelectSeq(calls, LAMBDA c : c.op = "update_item" /\ c.ok)
LastStateWritten ==
    IF AcceptedUpdates = <<>> THEN ""
    ELSE AcceptedUpdates[Len(AcceptedUpdates)].arg[1]

\* A step after "mark processing" failed in this run.
FailedAfterProcessing ==
    /\ RunReturned
    /\ "processing" \in steps
    /\ "completed" \notin steps

\* C1, as claimed: whenever the update to 'processing' succeeded and a later
\* step failed, the interview's persisted state at the return is 'failed',
\* whatever the record store does during the run.
C1_FailedStateWhateverTheStoreDoes ==
    FailedAfterProcessing => table[interview_id].state = "failed"

\* C1, amended: whenever the update to 'processing' succeeded and a later step
\* failed, the run returns False after issuing, as its last call, the update
\* to 'failed'; the persisted state at the return is 'failed' when the store
\* accepted that update and is still 'processing' when it did not.
C1_FailedStateIfStoreAccepts ==
    FailedAfterProcessing =>
        /\ success = "false"
        /\ IsUpdate(LastCall, "failed")
        /\ table[interview_id].state = (IF LastCall.ok THEN "failed" ELSE "processing")

C1_Witness ==
    /\ FailedAfterProcessing
    /\ "subop" \in steps
    /\ LastCall.ok
    /\ table[interview_id].state = "failed"

\* C2: process_interview_message returns True only if the load, the record
\* validation, the update to 'processing', the sub-operation, the batch save
\* and the update to 'completed' all succeeded in that run, and then the
\* last state the run wrote is 'completed'; a run in which any of them did
\* not succeed returns False.
C2_TrueOnlyIfEveryStepSucceeded ==
    RunReturned =>
        /\ success = "true" => (AllSteps \subseteq steps /\ LastStateWritten = "completed")
        /\ ~(AllSteps \subseteq steps) => success = "false"

C2_Witness ==
    /\ RunReturned
    /\ {"load", "validate_record", "processing", "subop"} \subseteq steps
    /\ "completed" \notin steps
    /\ success = "false"

\* C4, as claimed: for an interview id that is not a well-formed UUID the run
\* returns False and issues no record-store call and no queue call.
C4_MalformedIdTouchesNothing ==
    (RunReturned /\ ~validate_uuid(interview_id)) =>
        (success = "false" /\ calls = <<>>)

\* C5: when the record store fails the update to 'processing', the run
\* returns False and invokes none of the later steps: after the failed
\* update the only call it issues is the update to 'failed'.
ProcessingUpdateFailed ==
    \E i \in 1..Len(calls) : IsUpdate(calls[i], "processing") /\ ~calls[i].ok

C5_ProcessingFailureAborts ==
    \A i \in 1..Len(calls) :
        (IsUpdate(calls[i], "processing") /\ ~calls[i].ok) =>
            /\ \A j \in (i + 1)..Len(calls) : IsUpdate(calls[j], "failed")
            /\ pc \in {"wf_failed", "after_callback", "exit", "poll", "parse", "callback",
                      "interrupted"}
            /\ wrapper.invocations = 0
            /\ questions = <<>>
            /\ success \in {"false", "none"}
            /\ RunReturned => success = "false"

C5_Witness ==
    /\ RunReturned
    /\ ProcessingUpdateFailed
    /\ Len(calls) = 3
    /\ success = "false"

\* C6, as claimed: when an attempt of the media + transcription + extraction
\* sub-operation fails, the workflow runs the sub-operation again, up to
\* WorkflowMaxRetries + 1 attempts in total: a run that ended with every
\* attempt failed has made all of them.
C6_SubOperationRetried ==
    (/\ RunReturned
     /\ wrapper.invocations >= 1
     /\ \A i \in 1..Len(wrapper.outcomes) : wrapper.outcomes[i].value.is_none)
        => wrapper.invocations = WorkflowMaxRetries + 1

\* Which calls the current run issued, and with what fate.
Issued(op) == \E i \in 1..Len(calls) : calls[i].op = op
AllCallsSucceeded == \A i \in 1..Len(calls) : calls[i].ok
TranscriptionReturned(r) ==
    \E i \in 1..Len(calls) : calls[i].op = "transcribe_audio" /\ calls[i].arg = <<r>>

\* The run loaded a valid interview in state 'pending'.
ValidPendingLoaded ==
    /\ validate_uuid(interview_id)
    /\ validate_interview_data(interview)
    /\ interview.state = "pending"

\* The persisted questions of interview k.
QuestionsOf(k) == SelectSeq(questions, LAMBDA q : q.interview_id = k)

\* A returned run in which every collaborator succeeded and the sub-operation
\* returned a list of questions.
EverythingSucceeded ==
    /\ RunReturned
    /\ ValidPendingLoaded
    /\ AllCallsSucceeded
    /\ "subop" \in steps
    /\ ~extracted.is_none

\* C12, as claimed: for a valid interview in state 'pending' where the media
\* pipeline, the transcription (non-empty text), the extraction (n >= 1
\* questions with answers) and every record-store call succeed, the run
\* returns True, the state ends as 'completed' and exactly n questions, each
\* with a non-empty answer, are persisted for the interview.
C12_HappyPathCompletes ==
    (EverythingSucceeded /\ Len(extracted.list) >= 1) =>
        /\ success = "true"
        /\ table[interview_id].state = "completed"
        /\ Len(QuestionsOf(interview_id)) = Len(extracted.list)
        /\ \A i \in 1..Len(QuestionsOf(interview_id)) :
              QuestionsOf(interview_id)[i].answer # ""

\* C13, as claimed: when the transcription job reaches FAILED, the run
\* returns False, the interview state ends as 'failed', the extraction client
\* is never invoked and no question batch write is issued.
C13_TranscriptionFailedEndsFailed ==
    TranscriptionReturned("FAILED") =>
        /\ ~Issued("extract_questions")
        /\ ~Issued("batch_write_item")
        /\ RunReturned =>
              /\ success = "false"
              /\ table[interview_id].state = "failed"

\* C13, amended: when the transcription job reaches FAILED, the extraction
\* client is never invoked, no question batch write is issued and no question
\* is persisted; the run returns False after issuing, as its last call, the
\* update to 'failed', and the persisted state at the return is 'failed'
\* when the store accepted that update and still 'processing' when it did
\* not.
C13_TranscriptionFailedAborts ==
    TranscriptionReturned("FAILED") =>
        /\ ~Issued("extract_questions")
        /\ ~Issued("batch_write_item")
        /\ questions = <<>>
        /\ wrapper.invocations <= 1
        /\ RunReturned =>
              /\ success = "false"
              /\ IsUpdate(LastCall, "failed")
              /\ table[interview_id].state =
                    (IF LastCall.ok THEN "failed" ELSE "processing")

C13_Witness ==
    /\ RunReturned
    /\ TranscriptionReturned("FAILED")
    /\ success = "false"
    /\ LastCall.ok
    /\ table[interview_id].state = "failed"
    /\ ~Issued("extract_questions")

\* C14, as claimed: when media and transcription succeed with a non-empty
\* transcript and the extraction finds zero questions, the run returns True,
\* the state ends as 'completed' and zero questions are persisted.
C14_EmptyListCompletes ==
    (EverythingSucceeded /\ extracted = Some(<<>>)) =>
        /\ success = "true"
        /\ table[interview_id].state = "completed"
        /\ QuestionsOf(interview_id) = <<>>

\* C15, as claimed: when process_interview_message runs twice in sequence on
\* the same valid interview and every collaborator succeeds both times, both
\* runs return True and the second run adds its own batch of question
\* records to those of the first, which it neither replaces nor merges.
SecondRunEverythingSucceeded ==
    /\ RunReturned
    /\ previous_run.ran
    /\ previous_run.id = interview_id
    /\ previous_run.all_ok
    /\ validate_interview_data(interview)
    /\ AllCallsSucceeded
    /\ "subop" \in steps

C15_RerunAddsSecondBatch ==
    SecondRunEverythingSucceeded =>
        /\ previous_run.returned_true
        /\ success = "true"
        /\ Len(questions) = previous_run.persisted + Len(extracted.list)

\* The states the run asked the store to write, in order.
StateArgs == [i \in 1..Len(StateUpdates) |-> StateUpdates[i].arg[1]]

\* C16, as claimed: every run that returns has issued exactly two state
\* updates: 'processing' then 'completed' when it returns True, 'processing'
\* then 'failed' when it returns False, whichever step failed.
C16_ExactlyTwoUpdates ==
    RunReturned =>
        StateArgs = <<"processing", IF success = "true" THEN "completed" ELSE "failed">>

\* C16, amended: the state updates of a run that returns are, in order,
\* 'processing' if the run reached step 4, 'completed' if it reached step 8,
\* and 'failed', last, exactly when it returns False. A run that returns True
\* has issued 'processing' then 'completed'; a run that failed before step 4
\* (malformed id, load failure, missing or invalid record) has issued the
\* single update 'failed'; any other run that returns False has issued
\* 'processing' then 'failed', with a rejected 'completed' between them when
\* it was the update to 'completed' that failed.
C16_UpdatesByStepReached ==
    RunReturned =>
        /\ success = "true" => StateArgs = <<"processing", "completed">>
        /\ success = "false" =>
              /\ StateArgs \in {<<"failed">>, <<"processing", "failed">>,
                                 <<"processing", "completed", "failed">>}
              /\ StateArgs = <<"failed">> <=> "validate_record" \notin steps
              /\ Len(StateArgs) = 3 => ~StateUpdates[2].ok

C16_Witness ==
    /\ RunReturned
    /\ success = "false"
    /\ "subop" \in steps
    /\ StateArgs = <<"processing", "failed">>

\* C17, as claimed: once the persisted state of an interview is 'completed'
\* or 'failed', no run changes it.
C17_TerminalStatesKept ==
    [][\A k \in DOMAIN table :
          table[k].state \in {"completed", "failed"} =>
              table'[k].state = table[k].state]_vars

\* C17, amended: a persisted state changes only by one of the three updates
\* of the run in progress, on that run's interview id: to 'processing' at
\* step 4 (from any state, 'completed' and 'failed' included, since the state
\* that was loaded is never looked at), to 'completed' at step 8, or to
\* 'failed' in the except blocks; it never goes back to 'pending'.
C17_StateChangesOnlyByRunUpdates ==
    [][\A k \in DOMAIN table :
          table'[k].state # table[k].state =>
              /\ k = interview_id
              /\ \/ table'[k].state = "processing" /\ pc = "wf_mark_processing"
                 \/ table'[k].state = "completed" /\ pc = "wf_save"
                 \/ table'[k].state = "failed" /\ pc = "wf_failed"]_vars

\* A redelivered message has put an interview that had ended 'failed' back to
\* 'processing'.
C17_Witness ==
    /\ previous_run.ran
    /\ interview.id = interview_id
    /\ interview.state = "failed"
    /\ pc = "wf_extend"
    /\ table[interview_id].state = "processing"

\* C19: process_interview_message never lets an exception escape: whatever
\* fails in the run (a raised exception or an error result of the record
\* store, the queue client, the media pipeline, the transcription or the
\* extraction), where the call returns it has returned True or False.
C19_AlwaysReturnsBoolean ==
    (mode \in {"continuous", "single"} /\ pc \in {"after_callback", "exit"}) =>
        success \in {"true", "false"}

\* get_interview_by_id raised and the run returned False.
C19_Witness ==
    /\ pc \in {"after_callback", "exit"}
    /\ Len(calls) = 2
    /\ calls[1].op = "get_item"
    /\ ~calls[1].ok
    /\ ~calls[2].ok
    /\ success = "false"

\* The positions inside process_interview_message.
RunPcs ==
    {"wf_validate_id", "wf_load", "wf_validate_record", "wf_mark_processing",
     "wf_extend", "sub_media", "sub_transcribe", "sub_extract", "sub_return",
     "wf_save", "wf_failed"}

C23_UpdateReturnsStoreVerdict ==
    [][(Len(calls') = Len(calls) + 1 /\ calls'[Len(calls')].op = "update_item") =>
          LET c == calls'[Len(calls')]
              k == interview_id
              before == IF table[k] = NoItem THEN [NoItem EXCEPT !.id = k] ELSE table[k]
          IN  /\ success' # "raised"
              /\ ~c.ok => table' = table
              /\ c.ok =>
                    /\ table'[k].state = c.arg[1]
                    /\ table'[k].updated_at = "now"
                    /\ table'[k] = [before EXCEPT !.state = c.arg[1], !.updated_at = "now"]
                    /\ \A j \in DOMAIN table \ {k} : table'[j] = table[j]]_vars

\* The store failed the update to 'processing': the handler returned False
\* and the state is still 'pending'.
C23_Witness ==
    /\ pc = "wf_failed"
    /\ calls # <<>>
    /\ IsUpdate(LastCall, "processing")
    /\ ~LastCall.ok
    /\ table[interview_id].state = "pending"

\* C24, as claimed: step 7 persists every extracted question as a record that
\* carries the interview's interview_id, user_id, type and
\* programming_language unmodified.
C24_QuestionsCarryInterviewTags ==
    (EverythingSucceeded /\ Len(extracted.list) >= 1) =>
        /\ Len(QuestionsOf(interview_id)) >= Len(extracted.list)
        /\ \A i \in 1..Len(questions) :
              /\ {"interview_id", "user_id", "type", "programming_language"}
                    \subseteq DOMAIN questions[i]
              /\ questions[i].interview_id = interview_id
              /\ questions[i].user_id = interview.user_id
              /\ questions[i].type = interview.type
              /\ questions[i].programming_language = interview.programming_language

\* The positions inside step 6 of process_interview_message: the media call
\* of the attempt has returned and the attempt has not yet handed its result
\* back to line 108.
InsideSubOperation == {"sub_transcribe", "sub_extract", "sub_return"}

\* C26: an interrupt that arrives while a message is being processed does
\* not abort the step in progress: the poll loop stops only when the run of
\* process_interview_message is at a step boundary, never inside the media,
\* transcription and extraction sub-operation.
C26_InterruptAtStepBoundary ==
    [][(pc' = "interrupted" /\ pc # "interrupted") =>
          pc \notin InsideSubOperation]_vars

\* The first request of extract_questions failed in this run.
ExtractionRequestFailed ==
    \E i \in 1..Len(calls) :
        calls[i].op = "extract_questions" /\ calls[i].arg = <<"request_failed">>

\* The extraction of this run found no question, without any failure.
GenuineZeroQuestions ==
    /\ EverythingSucceeded
    /\ extracted = Some(<<>>)
    /\ ~ExtractionRequestFailed

\* C29: a service-level failure of the question-extraction request is not
\* reported as an empty success: the sub-operation fails (it hands no list
\* to the workflow), the run returns False and the state ends 'failed'; a
\* genuine zero-question extraction yields a successful empty list, and the
\* run returns True with the state 'completed'.
C29_ServiceFailureIsNotEmptySuccess ==
    /\ ExtractionRequestFailed =>
          /\ extracted = None
          /\ "subop" \notin steps
          /\ RunReturned =>
                /\ success = "false"
                /\ table[interview_id].state = "failed"
    /\ (GenuineZeroQuestions /\ RunReturned) =>
          /\ success = "true"
          /\ table[interview_id].state = "completed"

\* The place of a call in the order of process_interview_message; the
\* update to 'failed' of the failure path comes last.
Rank(c) ==
    CASE c.op = "get_item" -> 1
      [] IsUpdate(c, "processing") -> 2
      [] c.op = "change_message_visibility" -> 3
      [] c.op = "process_video" -> 4
      [] c.op = "transcribe_audio" -> 5
      [] c.op = "extract_questions" -> 6
      [] c.op = "batch_write_item" -> 7
      [] IsUpdate(c, "completed") -> 8
      [] OTHER -> 9

\* The ranks of the calls of the run, in the order of the calls.
Ranks == [i \in 1..Len(calls) |-> Rank(calls[i])]

\* C30, as claimed: the calls of a run happen in the fixed order, and each
\* call of the order is started only after the previous one returned
\* success.
C30_EachCallAfterSuccess ==
    LET R == Ranks
    IN  /\ \A j \in 2..Len(calls) : R[j - 1] < R[j]
        /\ \A j \in 2..Len(calls) : R[j] <= 8 => calls[j - 1].ok

\* C30, amended: the calls of a run happen in the fixed order get-interview,
\* update-to-processing, extend-visibility (exactly when a handle is
\* present), media, transcription, extraction, save-questions,
\* update-to-completed, none more than once, and each is started only after
\* the one before it was issued and every earlier call other than the
\* visibility extension returned success; the visibility extension is best
\* effort and the media pipeline is started whatever it returned. The media
\* pipeline is invoked only after the 'processing' update succeeded, and
\* 'completed' is written only after extraction and any batch write
\* succeeded.
C30_CallsInFixedOrder ==
    LET R == Ranks
        Has == {R[i] : i \in 1..Len(calls)}
    IN  /\ \A j \in 2..Len(calls) :
              /\ R[j - 1] < R[j]
              /\ R[j] <= 8 =>
                    \A i \in 1..(j - 1) : calls[i].ok \/ R[i] = 3
        /\ 2 \in Has => 1 \in Has
        /\ 3 \in Has => 2 \in Has /\ sqs_message # {}
        /\ 4 \in Has => 2 \in Has /\ (sqs_message # {} => 3 \in Has)
        /\ 5 \in Has => 4 \in Has
        /\ 6 \in Has => 5 \in Has
        /\ 7 \in Has => 6 \in Has
        /\ 8 \in Has => 6 \in Has

\* The visibility extension failed and media, transcription and extraction
\* were then called in this order.
C30_Witness ==
    /\ Len(calls) >= 6
    /\ calls[1].op = "get_item"
    /\ IsUpdate(calls[2], "processing")
    /\ calls[3].op = "change_message_visibility" /\ ~calls[3].ok
    /\ calls[4].op = "process_video" /\ calls[4].ok
    /\ calls[5].op = "transcribe_audio" /\ calls[5].ok
    /\ calls[6].op = "extract_questions"

\* C34: in the run loop the visibility extension to the fixed window is
\* issued, after the receive, before the callback starts; inside
\* process_interview_message a further extension (1800 s) is requested if
\* and only if a message handle was passed, right after the update to
\* 'processing' succeeded and before the media pipeline is invoked.
C34_ExtensionsBeforeSlowWork ==
    /\ (mode = "continuous" /\ pc \in RunPcs \cup {"callback", "after_callback"}) =>
          /\ Len(loop_calls) = 2
          /\ loop_calls[1].op = "receive_message"
          /\ loop_calls[2].op = "change_message_visibility"
          /\ loop_calls[2].arg = <<"600">>
    /\ pc \in RunPcs => (sqs_message # {} <=> mode = "continuous")
    /\ \A i \in 1..Len(calls) :
          /\ calls[i].op = "change_message_visibility" =>
                /\ sqs_message # {}
                /\ calls[i].arg = <<"1800">>
                /\ i = 3
                /\ IsUpdate(calls[2], "processing") /\ calls[2].ok
          /\ calls[i].op = "process_video" =>
                /\ IsUpdate(calls[2], "processing") /\ calls[2].ok
                /\ IF sqs_message # {}
                     THEN i = 4 /\ calls[3].op = "change_message_visibility"
                     ELSE i = 3

\* A run started from the loop asked for 1800 s after the loop had asked for
\* 600 s, and then called the media pipeline.
C34_Witness ==
    /\ mode = "continuous"
    /\ Len(loop_calls) = 2
    /\ loop_calls[2].op = "change_message_visibility"
    /\ Len(calls) >= 4
    /\ calls[3].op = "change_message_visibility"
    /\ calls[4].op = "process_video"

\* C35: delete_message and change_message_visibility never raise: when the
\* queue client fails they return False and the queue is as it was. A failed
\* extension in the loop is followed by the callback, a failed extension in
\* the workflow by the media step, and after a delete, failed or not, the
\* loop polls again.
C35_QueueCallsAreBestEffort ==
    [][/\ (loop_calls' # loop_calls /\ loop_calls' # <<>>) =>
             LET c == loop_calls'[Len(loop_calls')]
             IN  /\ c.op = "change_message_visibility" =>
                       /\ pc' = "callback"
                       /\ ~c.ok => queue' = queue
                 /\ c.op = "delete_message" =>
                       /\ pc' = "poll"
                       /\ ~c.ok => queue' = queue
       /\ (Len(calls') = Len(calls) + 1
             /\ calls'[Len(calls')].op = "change_message_visibility") =>
             /\ pc' = "sub_media"
             /\ success' = success
             /\ ~calls'[Len(calls')].ok => queue' = queue]_vars

\* Both extensions of a message failed and the media pipeline was invoked
\* all the same.
C35_Witness ==
    /\ mode = "continuous"
    /\ Len(loop_calls) = 2
    /\ loop_calls[2].op = "change_message_visibility" /\ ~loop_calls[2].ok
    /\ Len(calls) >= 4
    /\ calls[3].op = "change_message_visibility" /\ ~calls[3].ok
    /\ calls[4].op = "process_video"

(***************************************************************************)
(* Properties of the run loop (checked under SpecLoop).                    *)
(***************************************************************************)
DeleteIssued == \E i \in 1..Len(loop_calls) : loop_calls[i].op = "delete_message"

\* C3: a message whose payload parsed to an interview_id is deleted only if
\* the callback returned True for it; when the callback returned False or
\* raised, the loop is back at the poll with no delete issued for the
\* message, which is still in the queue.
C3_DeleteOnlyAfterTrue ==
    \A m \in message :
        parse_message_body(queue[m].body) = "dict" =>
            /\ DeleteIssued => success = "true"
            /\ (pc = "poll" /\ success \in {"false", "raised"}) =>
                  (~DeleteIssued /\ queue[m].status \in {"inflight", "visible"})

C3_Witness ==
    /\ pc = "poll"
    /\ success = "raised"
    /\ ~DeleteIssued
    /\ \E m \in message :
          /\ parse_message_body(queue[m].body) = "dict"
          /\ queue[m].status = "visible"

\* The positions of run_message_processor; "interrupted" is after the break.
LoopPcs == {"poll", "parse", "callback", "after_callback"}

\* The last poll raised.
PollRaised ==
    /\ loop_calls # <<>>
    /\ loop_calls[Len(loop_calls)] = Call("receive_message", <<"300">>, FALSE)

\* C20: the run loop keeps polling after any exception raised by the callback
\* or by a poll. The loop is always at one of its positions or stopped by
\* the interrupt, which is the only step that ends it; after a poll that
\* raised it is at the poll again; and the step it takes after the callback
\* raised goes to the next poll (or is the interrupt) without deleting the
\* message or issuing any queue call for it.
C20_LoopSurvivesExceptions ==
    [][/\ pc' \in LoopPcs \cup {"interrupted"}
       /\ (pc' = "interrupted" /\ pc # "interrupted") => Interrupt
       /\ PollRaised' => pc' \in {"poll", "interrupted"}
       /\ (pc = "after_callback" /\ success = "raised" /\ pc' # pc) =>
             /\ pc' \in {"poll", "interrupted"}
             /\ queue' = queue
             /\ loop_calls' = loop_calls]_vars

\* The callback raised and the loop is at its next poll, the message still
\* in flight.
C20_Witness ==
    /\ mode = "loop"
    /\ pc = "poll"
    /\ success = "raised"
    /\ Len(loop_calls) = 2
    /\ \E m \in message : queue[m].status = "inflight"

BatchesNeeded(n) == (n + batch_size - 1) \div batch_size

C18_OneRunPerInterview ==
    \A w1 \in Workers, w2 \in Workers :
        (w1 # w2 /\ workers[w1].marked /\ workers[w2].marked) =>
            InterviewOf(w1) # InterviewOf(w2)

(***************************************************************************)
(* Properties of the transcription wait (checked under SpecTranscription). *)
(***************************************************************************)
\* C27, as claimed: a transcription wait that timed out makes the run return
\* False with the interview state 'failed'.
C27_TimeoutEndsFailed ==
    (TranscriptionReturned("timeout") /\ RunReturned) =>
        /\ success = "false"
        /\ table[interview_id].state = "failed"

\* C27, amended: the transcription status poll always terminates and so does
\* the run: while the job is neither COMPLETED nor FAILED every poll moves
\* the clock on by at least poll_interval and is made only before
\* max_wait_time has elapsed, and the first evaluation at or after
\* max_wait_time ends the wait with a timeout. After a timeout no extraction
\* and no batch write is issued and the sub-operation is not retried; the run
\* returns False after issuing, as its last call, the update to 'failed',
\* and the persisted state is 'failed' when the store accepted that update
\* and still 'processing' when it did not.
C27_WaitEndsAndTimeoutAborts ==
    /\ [](pc = "wait_poll" =>
             Seconds(now - poll_interval - MaxCallSeconds) < max_wait_time)
    /\ [](TranscriptionReturned("timeout") =>
             /\ ~Issued("extract_questions")
             /\ ~Issued("batch_write_item")
             /\ questions = <<>>
             /\ wrapper.invocations <= 1
             /\ RunReturned =>
                   /\ success = "false"
                   /\ IsUpdate(LastCall, "failed")
                   /\ table[interview_id].state =
                         (IF LastCall.ok THEN "failed" ELSE "processing"))
    /\ [][pc = "wait_poll" =>
             IF Seconds(now) < max_wait_time
               THEN /\ pc' = "wait_poll" => now' >= now + poll_interval
                    /\ ~(TranscriptionReturned("timeout"))'
               ELSE /\ (TranscriptionReturned("timeout"))'
                    /\ pc' = "sub_return"]_vars
    /\ (pc = "wait_poll") ~> (pc = "exit" /\ success \in {"true", "false"})

\* The job never left IN_PROGRESS/QUEUED, the wait timed out, and the run
\* returned False with the state 'failed' written.
C27_Witness ==
    /\ RunReturned
    /\ TranscriptionReturned("timeout")
    /\ success = "false"
    /\ IsUpdate(LastCall, "failed")
    /\ LastCall.ok
    /\ table[interview_id].state = "failed"

\* The media call of the attempt returned a status other than success.
MediaFailed ==
    \E i \in 1..Len(calls) : calls[i].op = "process_video" /\ ~calls[i].ok

\* transcribe_audio returned status error (the job FAILED, the wait timed
\* out, a request raised) or status success with an empty transcript.
TranscriptionUnusable ==
    \E r \in {"FAILED", "timeout", "error", "empty"} : TranscriptionReturned(r)

\* C31: within one attempt of the sub-operation a failure at one stage stops
\* the attempt before any later stage: after a non-success media result no
\* transcription is started, after a failed or timed-out transcription or an
\* empty transcript the extraction client is not invoked, and in each case
\* the attempt yields None, never a question list.
C31_StageFailureStopsAttempt ==
    /\ MediaFailed =>
          /\ ~Issued("transcribe_audio")
          /\ pc \notin {"sub_transcribe", "wait_poll"}
    /\ (MediaFailed \/ TranscriptionUnusable) =>
          /\ ~Issued("extract_questions")
          /\ pc \notin {"sub_extract", "wf_save"}
          /\ extracted = None
          /\ "subop" \notin steps
          /\ wrapper.status = "returned" => wrapper.result.value.is_none

\* The transcript came back empty and the attempt returned None without any
\* extraction.
C31_Witness ==
    /\ TranscriptionReturned("empty")
    /\ pc = "wf_failed"
    /\ wrapper.status = "returned"
    /\ wrapper.result.value.is_none
    /\ ~Issued("extract_questions")

\* The load of this run went through and the store held no item under the
\* well-formed interview_id.
RecordMissing ==
    /\ validate_uuid(interview_id)
    /\ calls # <<>>
    /\ calls[1].op = "get_item" /\ calls[1].ok
    /\ "load" \notin steps

\* C32: when the store holds no record for a well-formed interview id, the
\* run returns False after a single load (get_item is issued once), and
\* issues no update to 'processing', no media, transcription or extraction
\* call and no question batch write.
C32_MissingRecordFailsAfterOneLoad ==
    RecordMissing =>
        /\ \A i \in 2..Len(calls) : calls[i].op # "get_item"
        /\ \A i \in 1..Len(calls) :
              /\ ~IsUpdate(calls[i], "processing")
              /\ calls[i].op \notin {"process_video", "transcribe_audio",
                                     "extract_questions", "batch_write_item"}
        /\ pc \in {"wf_failed", "exit"}
        /\ questions = <<>>
        /\ pc = "exit" => success = "false"

C32_Witness ==
    /\ RecordMissing
    /\ pc = "exit"
    /\ success = "false"
    /\ Len(calls) = 2

\* The run loaded a record that has an empty or missing id, video_path or
\* user_id, an id or user_id that is no UUID, or a video_path that starts
\* with neither s3:// nor videos/.
InvalidRecordLoaded ==
    /\ "load" \in steps
    /\ \/ interview.id = "" \/ interview.video_path = <<>> \/ interview.user_id = ""
       \/ interview.id \notin WellFormedUUIDs
       \/ interview.user_id \notin WellFormedUUIDs
       \/ ~(StartsWithS3(interview.video_path) \/ StartsWithVideos(interview.video_path))

NoStepAfterLoad ==
    /\ \A i \in 1..Len(calls) :
          /\ ~IsUpdate(calls[i], "processing")
          /\ calls[i].op \notin {"process_video", "transcribe_audio",
                                 "extract_questions", "batch_write_item"}
    /\ "processing" \notin steps
    /\ questions = <<>>
    /\ pc \in {"wf_validate_record", "wf_failed", "exit"}

\* C33, as claimed: for every loaded record that fails the validation the
\* run returns False without the update to 'processing' and without any
\* media, transcription, extraction or persist step, and the interview ends
\* in state 'failed'.
C33_InvalidRecordEndsFailed ==
    InvalidRecordLoaded =>
        /\ NoStepAfterLoad
        /\ pc = "exit" =>
              /\ success = "false"
              /\ table[interview_id].state = "failed"

\* C33, amended: for every such record the run returns False without the
\* update to 'processing' and without any media, transcription, extraction
\* or persist step, after issuing as its last call the update to 'failed';
\* the state is 'failed' when the store accepted that update and is left as
\* loaded when it did not.
C33_InvalidRecordAborts ==
    InvalidRecordLoaded =>
        /\ NoStepAfterLoad
        /\ pc = "exit" =>
              /\ success = "false"
              /\ IsUpdate(LastCall, "failed")
              /\ Len(calls) = 2
              /\ table[interview_id].state =
                    (IF LastCall.ok THEN "failed" ELSE interview.state)

\* A record whose video_path is a local path was loaded and the run returned
\* False with the state 'failed' written.
C33_Witness ==
    /\ InvalidRecordLoaded
    /\ interview.video_path = LocalPath
    /\ validate_uuid(interview.user_id)
    /\ pc = "exit"
    /\ success = "false"
    /\ table[interview_id].state = "failed"

\* C36: a run that returns False (its interview ends 'failed' when the store
\* takes the update) has persisted no question: when the run has returned,
\* questions exist only if it returned True and set the state 'completed'.
C36_FailedRunPersistsNothing ==
    /\ (pc = "wf_failed" \/ (pc = "exit" /\ success = "false")) => questions = <<>>
    /\ (pc = "exit" /\ questions # <<>>) =>
          /\ success = "true"
          /\ table[interview_id].state = "completed"

\* A run extracted questions, returned False with the state 'failed', and
\* the questions table is empty.
C36_Witness ==
    /\ pc = "exit"
    /\ success = "false"
    /\ table[interview_id].state = "failed"
    /\ Issued("extract_questions")
    /\ ~extracted.is_none
    /\ extracted.list # <<>>
    /\ questions = <<>>

\* C38: process_interview_message never issues a state update for an
\* interview_id under which the store holds no record: a run that fails at
\* the validation of the id or finds no record issues no update_item and
\* leaves the key without a record.
C38_NoUpdateWithoutRecord ==
    ((~validate_uuid(interview_id) /\ pc \in {"wf_failed", "exit"}) \/ RecordMissing) =>
        /\ ~Issued("update_item")
        /\ table[interview_id] = NoItem

\* C39: with every collaborator succeeding, a run started for a valid
\* interview in state 'pending' eventually brings the interview to
\* 'completed' (the run is taken to its end by the weak fairness of
\* SpecTranscription; a run in which some call failed is excused).
C39_PendingEventuallyCompleted ==
    (/\ pc = "wf_validate_id"
     /\ validate_uuid(interview_id)
     /\ table[interview_id] # NoItem
     /\ validate_interview_data(table[interview_id])
     /\ table[interview_id].state = "pending")
        ~> (table[interview_id].state = "completed" \/ ~AllCallsSucceeded)

(***************************************************************************)
(* Properties of extract_questions (checked under SpecExtract).            *)
(***************************************************************************)
AnswerCall(i) ==
    SelectSeq(calls, LAMBDA c : c.op = "generate_professional_answer")[i]

IsError(o) == o.kind # "return"
IsRetryableError(o) ==
    /\ IsError(o)
    /\ ~(o.kind = "ClientError" /\ o.code \in NonRetryableCodes)

\* The service errors the wrapper retries.
IsRetryableServiceError(o) ==
    \/ o.kind = "BotoCoreError"
    \/ o.kind = "ClientError" /\ o.code \notin NonRetryableCodes

Outs == wrapper.outcomes

\* C7: with max_retries = 2, an operation that raises a retryable error on
\* its first two attempts is attempted a third time, and when the third
\* attempt returns a value the wrapper returns that value after exactly
\* three invocations and two backoff sleeps.
C7_ThirdAttemptSucceeds ==
    (/\ wrapper.max_retries = 2
     /\ Len(Outs) >= 2
     /\ IsRetryableError(Outs[1])
     /\ IsRetryableError(Outs[2]))
        => /\ Len(Outs) = 2 => wrapper.status \in {"backoff", "running"}
           /\ (Len(Outs) >= 3 /\ Outs[3].kind = "return") =>
                 /\ wrapper.status = "returned"
                 /\ wrapper.result = Returned(Outs[3].value)
                 /\ wrapper.invocations = 3
                 /\ Len(wrapper.sleeps) = 2

C7_Witness ==
    /\ wrapper.max_retries = 2
    /\ wrapper.status = "returned"
    /\ Len(Outs) = 3
    /\ IsRetryableServiceError(Outs[1])
    /\ IsRetryableServiceError(Outs[2])
    /\ wrapper.result.value = "r2"

\* C8: whatever max_retries is, a service error with a non-retryable code
\* (AccessDenied, InvalidParameterValue, ValidationException) ends the call
\* at once with AWSServiceError: no sleep and no attempt follows it, so when
\* it is the first attempt's error the operation was invoked exactly once
\* and nothing slept.
C8_NonRetryableFailsAtOnce ==
    \A i \in 1..Len(Outs) :
        (Outs[i].kind = "ClientError" /\ Outs[i].code \in NonRetryableCodes) =>
            /\ i = Len(Outs)
            /\ wrapper.status = "raised"
            /\ wrapper.result.value = "AWSServiceError"
            /\ wrapper.invocations = i
            /\ Len(wrapper.sleeps) = i - 1
            /\ i = 1 => (wrapper.invocations = 1 /\ wrapper.sleeps = <<>>)

C8_Witness ==
    /\ wrapper.max_retries >= 2
    /\ Len(Outs) = 1
    /\ Outs[1].kind = "ClientError"
    /\ Outs[1].code = "InvalidParameterValue"
    /\ wrapper.status = "raised"
    /\ wrapper.sleeps = <<>>

\* C9, as claimed: when the operation raises ValidationError, the wrapper
\* makes exactly one attempt, sleeps never and fails at once with
\* AWSServiceError.
C9_ValidationErrorFailsAtOnce ==
    (Len(Outs) >= 1 /\ Outs[1].kind = "ValidationError") =>
        /\ wrapper.status = "raised"
        /\ wrapper.result.value = "AWSServiceError"
        /\ wrapper.invocations = 1
        /\ wrapper.sleeps = <<>>

\* C10: for an operation that fails with a retryable error on every attempt,
\* the operation is invoked max_retries + 1 times in all, a sleep happens
\* only between two attempts (max_retries sleeps, none after the last
\* attempt), and the sleep after attempt a (from 0) is
\* min(base_delay * 2^a, max_delay): the delays never decrease and never
\* exceed max_delay.
ExpectedDelay(a) ==
    IF wrapper.base_delay * (2 ^ a) <= wrapper.max_delay
      THEN wrapper.base_delay * (2 ^ a)
      ELSE wrapper.max_delay

C10_BackoffSchedule ==
    (\A i \in 1..Len(Outs) : IsRetryableError(Outs[i])) =>
        /\ wrapper.invocations <= wrapper.max_retries + 1
        /\ wrapper.status \in {"running", "backoff", "raised"}
        /\ wrapper.status = "raised" =>
              /\ wrapper.invocations = wrapper.max_retries + 1
              /\ Len(wrapper.sleeps) = wrapper.max_retries
        /\ wrapper.status = "running" => Len(wrapper.sleeps) = wrapper.invocations
        /\ wrapper.status = "backoff" => Len(wrapper.sleeps) = wrapper.invocations - 1
        /\ wrapper.invocations = wrapper.max_retries + 1 => wrapper.status = "raised"
        /\ \A a \in 1..Len(wrapper.sleeps) :
              /\ wrapper.sleeps[a] = ExpectedDelay(a - 1)
              /\ wrapper.sleeps[a] <= wrapper.max_delay
              /\ a > 1 => wrapper.sleeps[a - 1] <= wrapper.sleeps[a]

C10_Witness ==
    /\ wrapper.status = "raised"
    /\ wrapper.max_retries = 3
    /\ wrapper.base_delay = 2
    /\ wrapper.max_delay = 5
    /\ wrapper.invocations = 4
    /\ wrapper.sleeps = <<2, 4, 5>>
    /\ \A i \in 1..Len(Outs) : IsRetryableError(Outs[i])

\* Every one of the max_retries + 1 attempts failed with an error the wrapper
\* retries, and the wrapper has raised.
RetriesExhausted ==
    /\ wrapper.status = "raised"
    /\ wrapper.invocations = wrapper.max_retries + 1
    /\ \A i \in 1..Len(Outs) : IsRetryableError(Outs[i])

LastOut == Outs[Len(Outs)]

\* C11, as claimed: when every one of the max_retries + 1 attempts fails,
\* with a retryable service error or with a generic exception, the wrapper
\* raises AWSServiceError carrying the retry count.
C11_ExhaustionAlwaysClassified ==
    RetriesExhausted =>
        /\ wrapper.result.kind = "raise"
        /\ wrapper.result.value = "AWSServiceError"
        /\ wrapper.result.retries = wrapper.max_retries

\* C11, amended: when every one of the max_retries + 1 attempts fails, the
\* wrapper raises according to the failure of the last attempt: a retryable
\* service error (ClientError / BotoCoreError) becomes AWSServiceError
\* carrying the retry count max_retries; any other exception is re-raised as
\* it is, unclassified and without a retry count.
C11_ExhaustionByLastFailure ==
    RetriesExhausted =>
        /\ wrapper.result.kind = "raise"
        /\ IsBotoError(LastOut) =>
              /\ wrapper.result.value = "AWSServiceError"
              /\ wrapper.result.retries = wrapper.max_retries
        /\ ~IsBotoError(LastOut) =>
              /\ wrapper.result.value = LastOut.kind
              /\ wrapper.result.value # "AWSServiceError"
              /\ wrapper.result.retries = NoRetryCount

C11_Witness ==
    /\ RetriesExhausted
    /\ wrapper.max_retries = 2
    /\ Outs[1].kind = "Exception"
    /\ LastOut.kind = "ClientError"
    /\ wrapper.result.value = "AWSServiceError"
    /\ wrapper.result.retries = 2

(***************************************************************************)
(* Properties of _format_questions_for_database (checked under SpecFormat) *)
(***************************************************************************)
\* The text the item offers as its question.
QuestionText(item) ==
    CASE item.kind = "dict" -> IF item.question = NoKey THEN "" ELSE item.question
      [] item.kind = "str" -> item.question
      [] OTHER -> ""

\* The indices of the items that are to be kept: dicts and strings whose
\* question text is neither empty nor made of blanks only.
KeptIndices(items) ==
    {i \in 1..Len(items) :
        /\ items[i].kind \in {"dict", "str"}
        /\ QuestionText(items[i]) \notin {"", " "}}

\* The j-th kept index, in the order of the input.
NthKept(items, j) ==
    CHOOSE i \in KeptIndices(items) :
        Cardinality({k \in KeptIndices(items) : k <= i}) = j

\* What a kept item is to become.
ExpectedQuestion(item) ==
    [question |-> QuestionText(item),
     answer |-> IF item.professional_answer # NoKey THEN item.professional_answer
                ELSE IF item.answer # NoKey THEN item.answer
                ELSE "",
     context |-> IF item.question_context # NoKey THEN item.question_context
                 ELSE IF item.context # NoKey THEN item.context
                 ELSE ""]

\* C40: _format_questions_for_database keeps the order of its input, drops
\* every item whose question text is empty or blank and every item that is
\* neither a dict nor a string, gives each kept item its professional_answer
\* (answer when that key is missing) as answer and its question_context
\* (context when that key is missing) as context, and never returns more
\* items than it was given.
C40_FormatKeepsOrderAndDropsBlank ==
    mode = "format" =>
        /\ Len(questions) <= ItemsVisited
        /\ ItemsVisited <= Len(extracted.list)
        /\ pc = "format_done" =>
              /\ Len(questions) = Cardinality(KeptIndices(extracted.list))
              /\ \A j \in 1..Len(questions) :
                    questions[j] =
                        ExpectedQuestion(extracted.list[NthKept(extracted.list, j)])

\* A blank item between two kept ones was dropped; the first kept item took
\* its answer and context from the fallback keys.
C40_Witness ==
    /\ mode = "format"
    /\ pc = "format_done"
    /\ Len(extracted.list) = 3
    /\ KeptIndices(extracted.list) = {1, 3}
    /\ extracted.list[1].kind = "dict"
    /\ extracted.list[1].professional_answer = NoKey
    /\ extracted.list[1].question_context = NoKey
    /\ extracted.list[3].kind = "dict"
    /\ extracted.list[3].professional_answer = "pa"
    /\ extracted.list[2].kind = "dict"
    /\ extracted.list[2].question = " "
    /\ questions = <<[question |-> "Q", answer |-> "a", context |-> "c"],
                     [question |-> "Q", answer |-> "pa", context |-> "qc"]>>

====
